---- MODULE Spec2Model ----
(***************************************************************************)
(* Model of the video transcoding service: the queue router and status     *)
(* service (services/video.service.ts, in its two versions), the broker    *)
(* queues (queues/bullmq.ts), the worker pipeline (workers/video.worker.ts)*)
(* with the transcode engine (jobs/video.processor.ts), the realtime       *)
(* event relay (events/queueEvents.ts), the worker processes' concurrency  *)
(* slots and job locks, and the shutdown of the worker process and of the  *)
(* relay/API process (index.ts).                                           *)
(***************************************************************************)
EXTENDS Integers, Sequences, FiniteSets, TLC

(***************************************************************************)
(* Bounds of the model                                                     *)
(***************************************************************************)
\* Jobs the router may submit in one behaviour, over all queues.
MaxJobs == 2

(***************************************************************************)
(* Static configuration                                                    *)
(***************************************************************************)
ALLOWED_RESOLUTIONS == <<360, 480, 720>>

\* Array.prototype.includes on ALLOWED_RESOLUTIONS
IsAllowed(r) == \E i \in DOMAIN ALLOWED_RESOLUTIONS : ALLOWED_RESOLUTIONS[i] = r

AllowedRes == {ALLOWED_RESOLUTIONS[i] : i \in DOMAIN ALLOWED_RESOLUTIONS}

\* The values a caller may pass as a resolution: the allowed ones and 1080,
\* which the worker and the relay know a queue for and the router rejects.
RequestedResolutions == {360, 480, 720, 1080}

queue360 == "video_360p"
queue480 == "video_480p"
queue720 == "video_720p"
queue1080 == "video_1080p"

RES_JOB_OPTS ==
  [r \in AllowedRes |->
     CASE r = 360 -> [attempts |-> 3, timeoutMs |-> 10 * 60 * 1000, backoffDelayMs |-> 5000]
       [] r = 480 -> [attempts |-> 3, timeoutMs |-> 20 * 60 * 1000, backoffDelayMs |-> 5000]
       [] r = 720 -> [attempts |-> 4, timeoutMs |-> 30 * 60 * 1000, backoffDelayMs |-> 10000]]

\* RES_TO_QUEUE with the queues of 480 and 720 exchanged
RES_TO_QUEUE_Swapped ==
  [r \in AllowedRes |->
     CASE r = 360 -> "video_360p"
       [] r = 480 -> "video_720p"
       [] r = 720 -> "video_480p"]

RES_TO_QUEUE ==
  [r \in AllowedRes |->
     CASE r = 360 -> queue360
       [] r = 480 -> queue480
       [] r = 720 -> queue720]

\* The queues the relay subscribes to (the router's three and video_1080p).
queues == <<queue360, queue480, queue720, queue1080>>

QueueNames == {queues[i] : i \in DOMAIN queues}

Users == {"u1", "u2"}

\* Optional values (undefined / null in the source) are sequences of length <= 1.
None == <<>>
Some(v) == <<v>>

\* obj[key] of a JavaScript object: None when the object has no such key
Field(obj, key) == IF key \in DOMAIN obj THEN Some(obj[key]) ELSE None

(***************************************************************************)
(* State                                                                   *)
(***************************************************************************)
VARIABLES
  broker,   \* queue name -> (job id -> job): the jobs each queue holds
  nextId,   \* queue name -> the id the queue gives its next job
  now,      \* Date.now()
  version,  \* the version of services/video.service.ts that is deployed
  reply,    \* the last call of the router / status service and its outcome
  pc,       \* the worker's position in the processor of the job it holds
  cur,      \* the job the worker holds: <<queue, id>>, or None
  localIn,  \* the processor's localIn (None while undefined)
  localOut, \* the processor's localOut (None while undefined)
  thrown,   \* the error the processor's try block has thrown, or None
  returned, \* the value the processor's try block returns, or None
  disk,     \* the temporary files that exist on the worker's disk
  cloud,    \* the storage provider: the original and the resized artifacts
  engine,   \* convertResolution: duration, onProgress calls, settlement
  inflight, \* updateProgress commands sent to the broker and not yet applied
  recorded, \* the progress values recorded on the job in this attempt
  executions, \* how many times the processor has been started
  faults,   \* how many faults of the environment have occurred
  relayUp,  \* whether a relay process is subscribed to the queues' events
  events,   \* lifecycle events the broker has emitted and the relay not yet received
  lastProgressEmit, \* the relay's throttle map: job id -> time
  pending,  \* handlers of the relay that await getJobOwner, in call order
  delivered, \* what the relay has emitted, in order, with the channel
  handled,  \* the progress events the relay has received, in order
  QUEUE_NAME, \* the queue the worker processes are started for
  WORKER_CONCURRENCY, \* the environment's WORKER_CONCURRENCY, or None
  proc,     \* worker process -> "starting", "running", "crashed", "closing", "exited" or "killed"
  slots,    \* concurrency slot -> the attempt it executes, or None
  locks,    \* job id -> the lock a slot holds on the job and its expiry
  stalledCount, \* job id -> how often the job was found stalled
  isShuttingDown, \* the flag of the relay/API process' gracefulExit
  forceExitTimer, \* its hard deadline timer: "unset", "armed", "cleared"
  graceful, \* gracefulExit: the await it is at, and its exit code argument
  bridge,   \* subscription or adapter client of the relay -> its state
  exitCode, \* the exit code of the relay/API process, None while it runs
  signals,  \* how many signals have been sent, to either kind of process
  fleet,    \* relay instances that run side by side: what each has read,
            \* its throttle map and lookups, and the emits to the channels
  qeErrors, \* the QueueEvents errors the relay has logged
  statusCall, \* a status call between its two awaits: the job it read, or None
  hook      \* the client's upload hook and its socket

apiVars == <<broker, nextId, now, version, reply>>

workerVars == <<pc, cur, localIn, localOut, thrown, returned, disk, cloud, engine,
                inflight, recorded, executions, faults>>

relayRest == <<relayUp, lastProgressEmit, pending, delivered, handled>>

relayVars == <<events, relayRest>>

leaseVars == <<QUEUE_NAME, WORKER_CONCURRENCY, proc, slots, locks, stalledCount>>

exitVars == <<isShuttingDown, forceExitTimer, graceful, bridge, exitCode>>

\* The state of the processes: the workers' slots and locks, and the shutdown
\* of the relay/API process
fleetVars == <<fleet, qeErrors, statusCall, hook>>

hostVars == <<leaseVars, exitVars, signals, fleetVars>>

vars == <<apiVars, workerVars, relayVars, hostVars>>

\* Events that may wait in the stream of a subscribed relay.
MaxBuffered == 1

\* The broker appends lifecycle events to the stream a subscribed relay reads.
Emit(evs) == IF relayUp THEN events \o evs ELSE events

\* The stream has room for the events of one more broker transition.
StreamHasRoom == Len(events) < MaxBuffered

\* A lifecycle event of a job
Event(kind, q, jobId, data) == [kind |-> kind, queue |-> q, jobId |-> jobId, data |-> data]

\* queue.getJob(jobId): the job, or None
getJob(q, jobId) ==
  IF jobId \in DOMAIN broker[q] THEN Some(broker[q][jobId]) ELSE None

(***************************************************************************)
(* Queue router (services/video.service.ts), current and earlier version   *)
(***************************************************************************)
ValidationError == [kind |-> "error", error |-> "Unsupported resolution"]
Null == [kind |-> "null"]
Bool(b) == [kind |-> "boolean", value |-> b]

\* validateResolution: the cleaned resolution, or None when it throws
validateResolution(r) == IF ~IsAllowed(r) THEN None ELSE Some(r)

\* buildJobName of the current version
buildJobName(res, userId) == [prefix |-> "transcode", res |-> res, userId |-> userId]

\* buildJobName of the earlier version
buildJobNameLegacy(res) == [prefix |-> "scale", res |-> res]

\* { core fields, ...jobMeta }: a key of jobMeta replaces the core field of
\* the same name, as the object spread does
SpreadMeta(core, jobMeta) == jobMeta @@ core

\* queue.add(name, data, opts): the queue with the new job in state waiting
QueueAdd(jobs, id, name, data, opts, owner) ==
  [j \in DOMAIN jobs \cup {id} |->
     IF j = id
       THEN [name |-> name, data |-> data, opts |-> opts, state |-> "waiting",
             progress |-> [stage |-> "none", pct10 |-> 0],
             returnvalue |-> None, failedReason |-> None, attemptsMade |-> 0,
             started |-> 0, submittedBy |-> owner]
       ELSE jobs[j]]

\* enqueueVideoTranscode adding the job before it validates the resolution
enqueueVideoTranscode_AddFirst(args) ==
  LET res == args.resolution
      queue == IF IsAllowed(res) THEN RES_TO_QUEUE[res] ELSE queue1080
      attempts == IF IsAllowed(res) THEN RES_JOB_OPTS[res].attempts ELSE 3
      jobData == SpreadMeta([srcUrl |-> args.srcUrl, target |-> res,
                             userId |-> args.userId, requestedAt |-> now,
                             originalPublicId |-> args.originalPublicId],
                            args.jobMeta)
      id == nextId[queue]
  IN [result |-> IF IsAllowed(res)
                   THEN [kind |-> "enqueued", jobId |-> id, resolution |-> res,
                         queueName |-> queue]
                   ELSE ValidationError,
      broker |-> [broker EXCEPT ![queue] =
                    QueueAdd(@, id, buildJobName(res, args.userId), jobData,
                             [attempts |-> attempts, backoff |-> 5000,
                              timeout |-> None], args.userId)],
      nextId |-> [nextId EXCEPT ![queue] = @ + 1]]

\* enqueueVideoTranscode (current version): outcome and the broker after it
enqueueInto(jobs, ids, t, args) ==
  LET cleanRes == validateResolution(args.resolution) IN
  IF cleanRes = None
    THEN [result |-> ValidationError, broker |-> jobs, nextId |-> ids]
    ELSE
      LET res == cleanRes[1]
          queue == RES_TO_QUEUE[res]
          jobData == SpreadMeta([srcUrl |-> args.srcUrl, target |-> res,
                                 userId |-> args.userId, requestedAt |-> t,
                                 originalPublicId |-> args.originalPublicId],
                                args.jobMeta)
          jobOptions == [attempts |-> RES_JOB_OPTS[res].attempts,
                         backoff |-> RES_JOB_OPTS[res].backoffDelayMs,
                         timeout |-> None]
          id == ids[queue]
      IN [result |-> [kind |-> "enqueued", jobId |-> id, resolution |-> res,
                      queueName |-> queue],
          broker |-> [jobs EXCEPT ![queue] =
                        QueueAdd(@, id, buildJobName(res, args.userId), jobData,
                                 jobOptions, args.userId)],
          nextId |-> [ids EXCEPT ![queue] = @ + 1]]

enqueueVideoTranscode(args) == enqueueInto(broker, nextId, now, args)

\* enqueueVideoTranscode (earlier version): no originalPublicId, a timeout option
enqueueVideoTranscodeLegacy(args) ==
  LET cleanRes == validateResolution(args.resolution) IN
  IF cleanRes = None
    THEN [result |-> ValidationError, broker |-> broker, nextId |-> nextId]
    ELSE
      LET res == cleanRes[1]
          queue == RES_TO_QUEUE[res]
          jobData == SpreadMeta([srcUrl |-> args.srcUrl, target |-> res,
                                 userId |-> args.userId, requestedAt |-> now],
                                args.jobMeta)
          jobOptions == [attempts |-> RES_JOB_OPTS[res].attempts,
                         backoff |-> RES_JOB_OPTS[res].backoffDelayMs,
                         timeout |-> Some(RES_JOB_OPTS[res].timeoutMs)]
          id == nextId[queue]
      IN [result |-> [kind |-> "enqueued", jobId |-> id, resolution |-> res,
                      queueName |-> queue],
          broker |-> [broker EXCEPT ![queue] =
                        QueueAdd(@, id, buildJobNameLegacy(res), jobData,
                                 jobOptions, args.userId)],
          nextId |-> [nextId EXCEPT ![queue] = @ + 1]]

(***************************************************************************)
(* Status service                                                          *)
(***************************************************************************)
\* getVideoJobStatusFromQueue passing returnvalue and failedReason in every state
getVideoJobStatusFromQueue_RawFields(queue, jobId, resHint) ==
  LET job == getJob(queue, jobId) IN
  IF job = None THEN Null
  ELSE [kind |-> "status", jobId |-> jobId,
        resolution |-> IF resHint # None THEN resHint ELSE Field(job[1].data, "target"),
        queueName |-> queue, state |-> job[1].state, progress |-> job[1].progress,
        result |-> job[1].returnvalue, error |-> job[1].failedReason,
        data |-> job[1].data]

\* getVideoJobStatusFromQueue (current version); resHint is always passed
getVideoJobStatusFromQueue(queue, jobId, resHint) ==
  LET job == getJob(queue, jobId) IN
  IF job = None THEN Null
  ELSE
    LET state == job[1].state
        jobData == job[1].data
    IN [kind |-> "status", jobId |-> jobId,
        resolution |-> IF resHint # None THEN resHint ELSE Field(jobData, "target"),
        queueName |-> queue, state |-> state, progress |-> job[1].progress,
        result |-> IF state = "completed" THEN job[1].returnvalue ELSE None,
        error |-> IF state = "failed" THEN job[1].failedReason ELSE None,
        data |-> jobData]

\* getVideoJobStatusFromQueue (earlier version)
getVideoJobStatusFromQueueLegacy(queue, jobId, resHint) ==
  LET job == getJob(queue, jobId) IN
  IF job = None THEN Null
  ELSE
    LET state == job[1].state
        result == job[1].returnvalue
        error == job[1].failedReason
        tgt == Field(job[1].data, "target")
        resolution == IF resHint # None THEN resHint
                      ELSE IF tgt # None /\ IsAllowed(tgt[1]) THEN tgt ELSE None
    IN [kind |-> "status", jobId |-> jobId, resolution |-> resolution,
        queueName |-> queue, state |-> state, progress |-> job[1].progress,
        result |-> IF state = "completed" THEN result ELSE None,
        error |-> IF state = "failed" THEN error ELSE None,
        data |-> job[1].data]

\* getVideoJobStatusByRes (current version): validateResolution throws through
getVideoJobStatusByRes(resolution, jobId) ==
  LET cleanRes == validateResolution(resolution) IN
  IF cleanRes = None THEN ValidationError
  ELSE getVideoJobStatusFromQueue(RES_TO_QUEUE[cleanRes[1]], jobId, cleanRes)

\* getVideoJobStatusByRes (earlier version): catches the validation error
getVideoJobStatusByResLegacy(resolution, jobId) ==
  LET clean == validateResolution(resolution) IN
  IF clean = None THEN Null
  ELSE getVideoJobStatusFromQueueLegacy(RES_TO_QUEUE[clean[1]], jobId, clean)

\* The loop taking the last match instead of the first
RECURSIVE AnyQueueFrom_LastMatch(_, _)
AnyQueueFrom_LastMatch(i, jobId) ==
  IF i > Len(ALLOWED_RESOLUTIONS) THEN Null
  ELSE LET res == ALLOWED_RESOLUTIONS[i]
           status == getVideoJobStatusFromQueue(RES_TO_QUEUE[res], jobId, Some(res))
           later == AnyQueueFrom_LastMatch(i + 1, jobId)
       IN IF later # Null THEN later ELSE status

\* The loop of getVideoJobStatusAnyQueue over Object.entries(RES_TO_QUEUE),
\* whose integer keys come in ascending order, from entry i on
RECURSIVE AnyQueueFrom(_, _)
AnyQueueFrom(i, jobId) ==
  IF i > Len(ALLOWED_RESOLUTIONS) THEN Null
  ELSE LET res == ALLOWED_RESOLUTIONS[i]
           status == getVideoJobStatusFromQueue(RES_TO_QUEUE[res], jobId, Some(res))
       IN IF status # Null THEN status ELSE AnyQueueFrom(i + 1, jobId)

\* getVideoJobStatusAnyQueue (the two versions have the same loop)
getVideoJobStatusAnyQueue(jobId) == AnyQueueFrom(1, jobId)

\* job.remove(): the broker refuses to remove a job a worker holds the lock of
JobRemovable(job) == job.state # "active"

\* removeVideoJobByRes answering true for a job it leaves in the queue
removeVideoJobByRes_KeepJob(resolution, jobId) ==
  LET cleanRes == validateResolution(resolution) IN
  IF cleanRes = None THEN [result |-> ValidationError, broker |-> broker]
  ELSE IF getJob(RES_TO_QUEUE[cleanRes[1]], jobId) = None
    THEN [result |-> Bool(FALSE), broker |-> broker]
    ELSE [result |-> Bool(TRUE), broker |-> broker]

\* removeVideoJobByRes (current version): outcome and the broker after it
removeVideoJobByRes(resolution, jobId) ==
  LET cleanRes == validateResolution(resolution) IN
  IF cleanRes = None THEN [result |-> ValidationError, broker |-> broker]
  ELSE
    LET queue == RES_TO_QUEUE[cleanRes[1]]
        job == getJob(queue, jobId)
    IN IF job = None THEN [result |-> Bool(FALSE), broker |-> broker]
       ELSE IF ~JobRemovable(job[1])
         THEN [result |-> [kind |-> "error", error |-> "job is locked"],
               broker |-> broker]
         ELSE [result |-> Bool(TRUE),
               broker |-> [broker EXCEPT ![queue] =
                             [j \in DOMAIN @ \ {jobId} |-> @[j]]]]

\* removeVideoJobByRes (earlier version): an unknown resolution answers false
removeVideoJobByResLegacy(resolution, jobId) ==
  LET clean == validateResolution(resolution) IN
  IF clean = None THEN [result |-> Bool(FALSE), broker |-> broker]
  ELSE
    LET queue == RES_TO_QUEUE[clean[1]]
        job == getJob(queue, jobId)
    IN IF job = None THEN [result |-> Bool(FALSE), broker |-> broker]
       ELSE IF ~JobRemovable(job[1])
         THEN [result |-> [kind |-> "error", error |-> "job is locked"],
               broker |-> broker]
         ELSE [result |-> Bool(TRUE),
               broker |-> [broker EXCEPT ![queue] =
                             [j \in DOMAIN @ \ {jobId} |-> @[j]]]]

(***************************************************************************)
(* Broker transitions a Worker drives for the job it processes             *)
(***************************************************************************)
\* A broker that never promotes a delayed job
Leasable_OnlyWaiting(job) == job.state = "waiting"

\* A worker may lease a job that waits, or waits out its backoff delay.
Leasable(job) == job.state \in {"waiting", "delayed"}

\* The worker takes the job: it becomes active
moveToActive(job) == [job EXCEPT !.state = "active", !.started = @ + 1]

\* The processor returned: the job is completed with its return value
moveToCompleted(job, returnvalue) ==
  [job EXCEPT !.state = "completed", !.returnvalue = Some(returnvalue),
              !.attemptsMade = @ + 1]

\* An Error: its message and whether it carries captured tool output
Reason(message, output) == [message |-> message, output |-> output]

\* A failure that is final whatever attempts remain
moveToFailed_NoRetry(job, reason) ==
  [job EXCEPT !.failedReason = Some(reason),
              !.attemptsMade = @ + 1,
              !.state = "failed"]

\* The processor threw: the job is retried after its backoff while attempts
\* remain of opts.attempts, and is failed for good otherwise
moveToFailed(job, reason) ==
  [job EXCEPT !.failedReason = Some(reason),
              !.attemptsMade = @ + 1,
              !.state = IF job.attemptsMade + 1 < job.opts.attempts
                          THEN "delayed" ELSE "failed"]

\* The events the broker emits when a job has been moved out of active: none
\* when the job is to be retried
FinishedEvents(q, jobId, job) ==
  IF job.state = "completed"
    THEN <<Event("completed", q, jobId, job.returnvalue[1])>>
  ELSE IF job.state = "failed"
    THEN <<Event("failed", q, jobId, job.failedReason[1])>>
  ELSE <<>>

(***************************************************************************)
(* Specification of the router and the status service over the broker      *)
(***************************************************************************)
SrcUrls == {"https://cdn/original/v1.mp4"}
OriginalIds == {"", "original/v1"}
\* Metadata as the upload route passes it, and metadata whose keys have the
\* names of core fields.
PlainMeta == [originalFilename |-> "v1.mp4"]
CoreNamedMeta == [userId |-> "u1", target |-> 1080, srcUrl |-> "https://cdn/other.mp4"]
JobMetas == {PlainMeta, CoreNamedMeta}

\* The submitters of the model: u1 with plain metadata, u2 with core-named.
Submitters == {[userId |-> "u1", jobMeta |-> PlainMeta],
               [userId |-> "u2", jobMeta |-> CoreNamedMeta]}
JobIds == 1 .. MaxJobs

EnqueueArgs ==
  {[srcUrl |-> u, userId |-> s.userId, resolution |-> r,
    originalPublicId |-> o, jobMeta |-> s.jobMeta] :
     u \in SrcUrls, s \in Submitters, r \in RequestedResolutions, o \in OriginalIds}

EnqueueArgsLegacy ==
  {[srcUrl |-> u, userId |-> s.userId, resolution |-> r, jobMeta |-> s.jobMeta] :
     u \in SrcUrls, s \in Submitters, r \in RequestedResolutions}

\* The jobs submitted so far, over all queues.
JobCount == (nextId[queue360] - 1) + (nextId[queue480] - 1)
            + (nextId[queue720] - 1) + (nextId[queue1080] - 1)

StartTime == 1000

\* The worker processes started for one queue
Workers == {"w1", "w2"}

\* The values of WORKER_CONCURRENCY the model starts worker processes with:
\* not set, not a number, zero, whole numbers, a negative and a fractional one
EnvValues == {None, Some("abc"), Some("0"), Some("1"), Some("2"), Some("3"),
              Some("-1"), Some("1.5")}

\* Number(v) of a value of the environment, in tenths; None stands for NaN
\* (Number(undefined) and the Number of a text that is no numeral).
Number(v) ==
  CASE v = Some("0") -> Some(0)
    [] v = Some("1") -> Some(10)
    [] v = Some("2") -> Some(20)
    [] v = Some("3") -> Some(30)
    [] v = Some("-1") -> Some(0 - 10)
    [] v = Some("1.5") -> Some(15)
    [] OTHER -> None

\* const concurrency = Number(process.env.WORKER_CONCURRENCY) || 2, in
\* tenths: NaN and 0 are falsy, every other number is kept.
concurrency ==
  LET n == Number(WORKER_CONCURRENCY)
  IN IF n = None \/ n = Some(0) THEN 20 ELSE n[1]

\* Slots the model gives each worker process.
MaxSlots == 3

\* The concurrency slots of the worker processes
Slots == Workers \X (1..MaxSlots)

\* The Worker fetches a further job while fewer than concurrency jobs are in
\* process: slot k is in use only when k - 1 < concurrency.
Usable(s) == (s[2] - 1) * 10 < concurrency

\* What the relay's cleanup closes: the QueueEvents of each queue and the two
\* clients of the socket adapter
BridgeParts == QueueNames \cup {"pubClient", "subClient"}

\* The worker processes run and hold no job.
InitWorkers ==
  /\ proc = [w \in Workers |-> "running"]
  /\ slots = [s \in Slots |-> None]
  /\ locks = <<>>
  /\ stalledCount = <<>>

\* The upload hook after reset(): no job, no listeners on the socket. seen
\* counts the emits of the relay that have reached the client's socket.
HookIdle == [status |-> "idle", jobDetails |-> None, response |-> None,
             listening |-> None, seen |-> 0]

\* The relay instances of a deployment with more than one
Relays == {"r1", "r2"}

\* Every instance has subscribed and has read nothing yet.
InitFleet ==
  [relays |-> [r \in Relays |-> [cursor |-> 1, lastProgressEmit |-> <<>>,
                                  pending |-> <<>>]],
   read |-> 0,
   delivered |-> <<>>]

\* The relay/API process runs: initQueueEvents has subscribed and connected.
InitServer ==
  /\ fleet = InitFleet
  /\ qeErrors = <<>>
  /\ statusCall = None
  /\ hook = HookIdle
  /\ isShuttingDown = FALSE
  /\ forceExitTimer = "unset"
  /\ graceful = [at |-> "idle", code |-> 0]
  /\ bridge = [b \in BridgeParts |-> "open"]
  /\ exitCode = None

InitHosts ==
  /\ QUEUE_NAME = queue360
  /\ WORKER_CONCURRENCY = None
  /\ InitWorkers
  /\ InitServer
  /\ signals = 0

\* The queues are empty and one version of the service is deployed.
InitBroker ==
  /\ InitHosts
  /\ broker = [q \in QueueNames |-> <<>>]
  /\ nextId = [q \in QueueNames |-> 1]
  /\ now = StartTime
  /\ version \in {"current", "legacy"}
  /\ reply = [op |-> "none"]

\* convertResolution before it is called
EngineIdle == [probe |-> None, totalDuration |-> 0, markers |-> <<>>,
               calls |-> <<>>, settled |-> "no", stderr |-> FALSE]

\* The worker holds no job; its disk holds no temporary file.
InitWorker ==
  /\ pc = "idle"
  /\ cur = None
  /\ localIn = None
  /\ localOut = None
  /\ thrown = None
  /\ returned = None
  /\ disk = {}
  /\ cloud = [original |-> "present", resized |-> {}]
  /\ engine = EngineIdle
  /\ inflight = <<>>
  /\ recorded = <<>>
  /\ executions = 0
  /\ faults = 0

\* The relay's state when initQueueEvents has run, or before it has
InitRelay(up) ==
  /\ relayUp = up
  /\ events = <<>>
  /\ lastProgressEmit = <<>>
  /\ pending = <<>>
  /\ delivered = <<>>
  /\ handled = <<>>

InitApi == InitBroker /\ InitWorker /\ InitRelay(FALSE)

\* A caller submits a job, with arguments of S, through the current router.
SubmitFrom(S) ==
  \E args \in S :
    LET out == enqueueVideoTranscode(args) IN
    /\ version = "current"
    /\ broker' = out.broker
    /\ nextId' = out.nextId
    /\ reply' = [op |-> "enqueue", resolution |-> args.resolution,
                 userId |-> args.userId, result |-> out.result]
    /\ UNCHANGED <<now, version, hostVars>>

\* A caller submits a job through the earlier router.
SubmitLegacyFrom(S) ==
  \E args \in S :
    LET out == enqueueVideoTranscodeLegacy(args) IN
    /\ version = "legacy"
    /\ broker' = out.broker
    /\ nextId' = out.nextId
    /\ reply' = [op |-> "enqueue", resolution |-> args.resolution,
                 userId |-> args.userId, result |-> out.result]
    /\ UNCHANGED <<now, version, hostVars>>

Submit ==
  /\ JobCount < MaxJobs
  /\ SubmitFrom({a \in EnqueueArgs : a.originalPublicId # ""})
  /\ UNCHANGED <<workerVars, relayVars>>

SubmitLegacy ==
  /\ JobCount < MaxJobs
  /\ SubmitLegacyFrom(EnqueueArgsLegacy)
  /\ UNCHANGED <<workerVars, relayVars>>

StatusByRes ==
  \E r \in RequestedResolutions, j \in JobIds :
    /\ version = "current"
    /\ reply' = [op |-> "getByRes", resolution |-> r,
                 jobId |-> j, result |-> getVideoJobStatusByRes(r, j)]
    /\ UNCHANGED <<broker, nextId, now, version, hostVars, workerVars, relayVars>>

StatusByResLegacy ==
  \E r \in RequestedResolutions, j \in JobIds :
    /\ version = "legacy"
    /\ reply' = [op |-> "getByRes", resolution |-> r,
                 jobId |-> j, result |-> getVideoJobStatusByResLegacy(r, j)]
    /\ UNCHANGED <<broker, nextId, now, version, hostVars, workerVars, relayVars>>

StatusAnyQueue ==
  \E j \in JobIds :
    /\ reply' = [op |-> "getAny", jobId |-> j,
                 result |-> getVideoJobStatusAnyQueue(j)]
    /\ UNCHANGED <<broker, nextId, now, version, hostVars, workerVars, relayVars>>

Remove ==
  \E r \in RequestedResolutions, j \in JobIds :
    LET out == removeVideoJobByRes(r, j) IN
    /\ version = "current"
    /\ broker' = out.broker
    /\ reply' = [op |-> "remove", resolution |-> r,
                 jobId |-> j, result |-> out.result]
    /\ UNCHANGED <<nextId, now, version, hostVars, workerVars, relayVars>>

RemoveLegacy ==
  \E r \in RequestedResolutions, j \in JobIds :
    LET out == removeVideoJobByResLegacy(r, j) IN
    /\ version = "legacy"
    /\ broker' = out.broker
    /\ reply' = [op |-> "remove", resolution |-> r,
                 jobId |-> j, result |-> out.result]
    /\ UNCHANGED <<nextId, now, version, hostVars, workerVars, relayVars>>

\* A worker of the queue leases a job.
WorkerLease ==
  \E q \in QueueNames : \E j \in DOMAIN broker[q] :
    /\ Leasable(broker[q][j])
    /\ broker' = [broker EXCEPT ![q][j] = moveToActive(@)]
    /\ UNCHANGED <<nextId, now, version, hostVars, reply, workerVars, relayVars>>

\* The worker's processor returns its result for an active job.
WorkerComplete ==
  \E q \in QueueNames : \E j \in DOMAIN broker[q] :
    /\ broker[q][j].state = "active"
    /\ StreamHasRoom
    /\ broker' = [broker EXCEPT ![q][j] =
                    moveToCompleted(@, [resizedUrl |-> "https://cdn/resized.mp4",
                                        target |-> @.data.target])]
    /\ events' = Emit(FinishedEvents(q, j, broker'[q][j]))
    /\ UNCHANGED <<nextId, now, version, hostVars, reply, workerVars, relayRest>>

\* The worker's processor throws for an active job.
WorkerFail ==
  \E q \in QueueNames : \E j \in DOMAIN broker[q] :
    /\ broker[q][j].state = "active"
    /\ StreamHasRoom
    /\ broker' = [broker EXCEPT ![q][j] =
                    moveToFailed(@, Reason("Video processing failed with exit code", TRUE))]
    /\ events' = Emit(FinishedEvents(q, j, broker'[q][j]))
    /\ UNCHANGED <<nextId, now, version, hostVars, reply, workerVars, relayRest>>

NextApi ==
  \/ Submit
  \/ SubmitLegacy
  \/ StatusByRes
  \/ StatusByResLegacy
  \/ StatusAnyQueue
  \/ Remove
  \/ RemoveLegacy
  \/ WorkerLease
  \/ WorkerComplete
  \/ WorkerFail

SpecApi == InitApi /\ [][NextApi]_vars

(***************************************************************************)
(* Transcode engine (jobs/video.processor.ts)                              *)
(***************************************************************************)
\* Seconds of source the probe may report; 0 is a failed or non-numeric probe.
SourceDuration == 3

\* What running the probe may give: an error of execFile, or its stdout, which
\* is a duration in seconds or a text that is no number
ProbeOutcomes == {[error |-> TRUE, stdout |-> ""],
                  [error |-> FALSE, stdout |-> "N/A"],
                  [error |-> FALSE, stdout |-> "3.000000"]}

\* parseFloat of the probe's stdout; None stands for NaN
parseFloat(text) == IF text = "3.000000" THEN Some(SourceDuration) ELSE None

\* A probe whose failure is answered with the duration of the source
getVideoDuration_Guess(out) == SourceDuration

\* getVideoDuration: 0 when the probe fails or prints no number
getVideoDuration(out) ==
  IF out.error THEN 0
  ELSE LET duration == parseFloat(out.stdout)
       IN IF duration = None THEN 0 ELSE duration[1]

Durations == {getVideoDuration(out) : out \in ProbeOutcomes}

\* Elapsed seconds an out_time_ms marker may carry, up to beyond the duration.
MaxElapsed == 4
ElapsedValues == {0, 2, MaxElapsed}

\* A marker line the regular expression does not match (out_time_ms=N/A)
Unparsable == -1

\* Markers one run of the tool may print.
MaxMarkers == 2

\* Math.round of the quotient n / d of naturals, d > 0
RoundDiv(n, d) == (2 * n + d) \div (2 * d)

Min(a, b) == IF a < b THEN a ELSE b

\* The onProgress calls made so far, after the close handler ran with exit code 0
\* without its final onProgress(100)
closeCalls_NoFinal(calls) == calls

\* The onProgress calls made so far, after the close handler ran with exit code 0
closeCalls(calls) == Append(calls, 100)

\* A percentage that is not limited to 100
MarkerProgress_Unclamped(currentTimeSec, totalDuration) ==
  RoundDiv(currentTimeSec * 100, totalDuration)

\* An Error of the close handler without the captured output
closeError_NoOutput(stderrOutput) ==
  [message |-> "Video processing failed with exit code", output |-> FALSE]

\* The Error the close handler rejects with for an exit code other than 0:
\* its message ends with the stderr output captured so far
closeError(stderrOutput) ==
  [message |-> "Video processing failed with exit code", output |-> stderrOutput]

\* The percentage the stdout handler computes for a marker
MarkerProgress(currentTimeSec, totalDuration) ==
  Min(RoundDiv(currentTimeSec * 100, totalDuration), 100)

(***************************************************************************)
(* Worker pipeline (workers/video.worker.ts)                               *)
(***************************************************************************)
\* The queue and the id of the job the worker holds, and the job itself.
curQueue == cur[1][1]
curId == cur[1][2]
curJob == broker[curQueue][curId]

\* A progress object { stage, message, progress }, the percentage in tenths
Progress(stage, pct10) == [stage |-> stage, pct10 |-> pct10]

\* The engine percentage in tenths, not mapped into the processing band
ProcessingPct10_Unmapped(pct) == pct * 10

\* The band the onProgress callback maps an engine percentage into: 10 + pct * 0.8
ProcessingPct10(pct) == 100 + pct * 8

\* The temporary paths of this run of the processor (randomUUID based)
InFile == [kind |-> "in", run |-> executions]
OutFile == [kind |-> "out", run |-> executions]

\* Faults of the environment (broker, storage, file system, process spawn)
\* one behaviour may contain; exit codes of the transcoding tool are not counted.
MaxFaults == 1

\* A cleanup that never unlinks
cleanupTempFile_Keep(d, path, spent) ==
  {[disk |-> d, faults |-> spent, error |-> None]}

\* A cleanup that lets the error of unlink escape
cleanupTempFile_Rethrows(d, path, spent) ==
  {[disk |-> {f \in d : f.path # path}, faults |-> spent, error |-> None]}
    \cup (IF (\E f \in d : f.path = path) /\ spent < MaxFaults
            THEN {[disk |-> {IF f.path = path THEN [f EXCEPT !.stuck = TRUE] ELSE f : f \in d},
                   faults |-> spent + 1,
                   error |-> Some([message |-> "unlink failed", output |-> FALSE])]}
            ELSE {})

\* cleanupTempFile(localPath) on disk d after `spent` faults: what it may leave.
\* unlink removes the file; a missing file (ENOENT) and any other unlink error
\* are swallowed, and after such an error the file is still there; the error
\* the caller gets is None in every case.
cleanupTempFile(d, path, spent) ==
  {[disk |-> {f \in d : f.path # path}, faults |-> spent, error |-> None]}
    \cup (IF (\E f \in d : f.path = path) /\ spent < MaxFaults
            THEN {[disk |-> {IF f.path = path THEN [f EXCEPT !.stuck = TRUE] ELSE f : f \in d},
                   faults |-> spent + 1, error |-> None]}
            ELSE {})

\* A file written at a temporary path
NewFile(path) == [path |-> path, stuck |-> FALSE]

\* await job.updateProgress(...): recorded on the job once the commands sent
\* before it are applied, or rejected by the broker
AwaitUpdateProgress(p, nextPc) ==
  /\ inflight = <<>>
  /\ \/ /\ broker' = [broker EXCEPT ![curQueue][curId].progress = p]
        /\ events' = Emit(<<Event("progress", curQueue, curId, p)>>)
        /\ recorded' = Append(recorded, p.pct10)
        /\ pc' = nextPc
        /\ UNCHANGED <<thrown, faults>>
     \/ /\ faults < MaxFaults
        /\ faults' = faults + 1
        /\ thrown' = Some(Reason("updateProgress failed", FALSE))
        /\ pc' = "finally_in"
        /\ UNCHANGED <<broker, recorded, events>>

\* The worker takes a job of its queue and starts the processor.
Lease ==
  /\ pc = "idle"
  /\ \E q \in QueueNames : \E j \in DOMAIN broker[q] :
       /\ Leasable(broker[q][j])
       /\ broker' = [broker EXCEPT ![q][j] = moveToActive(@)]
       /\ cur' = Some(<<q, j>>)
  /\ pc' = "stage1"
  /\ localIn' = None
  /\ localOut' = None
  /\ thrown' = None
  /\ returned' = None
  /\ engine' = EngineIdle
  /\ recorded' = <<>>
  /\ executions' = executions + 1
  /\ UNCHANGED <<nextId, now, version, hostVars, reply, disk, cloud, inflight, faults>>
  /\ UNCHANGED relayVars

\* Stage 1: progress 5
Stage1Progress ==
  /\ pc = "stage1"
  /\ AwaitUpdateProgress(Progress("downloading", 50), "download")
  /\ UNCHANGED <<nextId, now, version, hostVars, reply, cur, localIn, localOut, returned,
                 disk, cloud, engine, inflight, executions>>
  /\ UNCHANGED relayRest

\* downloadFile(srcUrl): the file is written, or the download fails and the
\* partial file, if any, is cleaned up before the error is thrown
Download ==
  /\ pc = "download"
  /\ \/ /\ cloud.original = "present"
        /\ disk' = disk \cup {NewFile(InFile)}
        /\ localIn' = Some(InFile)
        /\ pc' = "stage2"
        /\ UNCHANGED <<thrown, faults>>
     \/ /\ cloud.original # "present" \/ faults < MaxFaults
        /\ \E partial \in {disk, disk \cup {NewFile(InFile)}} :
             \E left \in cleanupTempFile(partial, InFile,
                                         IF cloud.original = "present"
                                           THEN faults + 1 ELSE faults) :
               /\ disk' = left.disk
               /\ faults' = left.faults
        /\ thrown' = Some(Reason("File download failed", FALSE))
        /\ pc' = "finally_in"
        /\ UNCHANGED localIn
  /\ UNCHANGED <<apiVars, hostVars, cur, localOut, returned, cloud, engine, inflight,
                 recorded, executions>>
  /\ UNCHANGED relayVars

\* Stage 2: progress 10, then localOut is chosen
Stage2Progress ==
  /\ pc = "stage2"
  /\ AwaitUpdateProgress(Progress("processing", 100), "convert")
  /\ localOut' = IF pc' = "convert" THEN Some(OutFile) ELSE localOut
  /\ UNCHANGED <<nextId, now, version, hostVars, reply, cur, localIn, returned,
                 disk, cloud, engine, inflight, executions>>
  /\ UNCHANGED relayRest

\* convertResolution, steps 1 and 2: validation, then the duration probe
ConvertStart ==
  /\ pc = "convert"
  /\ \/ /\ curJob.data.target > 0
        /\ localIn[1] \in {f.path : f \in disk}
        /\ \E out \in ProbeOutcomes :
             engine' = [EngineIdle EXCEPT !.probe = Some(out),
                                          !.totalDuration = getVideoDuration(out),
                                          !.settled = "running"]
        /\ pc' = "ffmpeg"
        /\ UNCHANGED <<thrown, faults>>
     \/ /\ faults < MaxFaults
        /\ faults' = faults + 1
        /\ thrown' = Some(Reason("FFmpeg binary not found.", FALSE))
        /\ pc' = "finally_in"
        /\ UNCHANGED engine
  /\ UNCHANGED <<apiVars, hostVars, cur, localIn, localOut, returned, disk, cloud,
                 inflight, recorded, executions>>
  /\ UNCHANGED relayVars

\* onProgress of the processor: job.updateProgress is called and not awaited
onProgress(pct) == Append(inflight, Progress("processing", ProcessingPct10(pct)))

\* A chunk of the tool's stdout with one marker line
FfmpegMarker ==
  /\ pc = "ffmpeg"
  /\ Len(engine.markers) < MaxMarkers
  /\ \E m \in ElapsedValues \cup {Unparsable} :
       LET parsed == m # Unparsable /\ engine.totalDuration > 0
           progress == MarkerProgress(m, engine.totalDuration)
       IN /\ engine' = [engine EXCEPT
                          !.markers = Append(@, m),
                          !.calls = IF parsed THEN Append(@, progress) ELSE @]
          /\ inflight' = IF parsed THEN onProgress(progress) ELSE inflight
  /\ UNCHANGED <<apiVars, hostVars, pc, cur, localIn, localOut, thrown, returned, disk,
                 cloud, recorded, executions, faults>>
  /\ UNCHANGED relayVars

\* The close handler of the tool: exit code 0 reports 100 and resolves; any
\* other code rejects with the captured output
FfmpegClose ==
  /\ pc = "ffmpeg"
  /\ \/ /\ engine' = [engine EXCEPT !.calls = closeCalls(@), !.settled = "resolved"]
        /\ inflight' = IF engine'.calls = engine.calls THEN inflight
                        ELSE onProgress(engine'.calls[Len(engine'.calls)])
        /\ disk' = disk \cup {NewFile(OutFile)}
        /\ pc' = "stage3"
        /\ UNCHANGED thrown
     \/ /\ \E output \in BOOLEAN :
             /\ engine' = [engine EXCEPT !.settled = "rejected", !.stderr = output]
             /\ thrown' = Some(closeError(output))
        /\ disk' \in {disk, disk \cup {NewFile(OutFile)}}
        /\ pc' = "finally_in"
        /\ UNCHANGED inflight
  /\ UNCHANGED <<apiVars, hostVars, cur, localIn, localOut, returned, cloud, recorded,
                 executions, faults>>
  /\ UNCHANGED relayVars

\* The error handler of the tool's process (it could not be spawned)
FfmpegError ==
  /\ pc = "ffmpeg"
  /\ engine.markers = <<>>
  /\ faults < MaxFaults
  /\ faults' = faults + 1
  /\ engine' = [engine EXCEPT !.settled = "rejected"]
  /\ thrown' = Some(Reason("spawn error", FALSE))
  /\ pc' = "finally_in"
  /\ UNCHANGED <<apiVars, hostVars, cur, localIn, localOut, returned, disk, cloud,
                 inflight, recorded, executions>>
  /\ UNCHANGED relayVars

\* The broker applies the oldest updateProgress command in flight.
BrokerApplyProgress ==
  /\ inflight # <<>>
  /\ broker' = [broker EXCEPT ![curQueue][curId].progress = Head(inflight)]
  /\ recorded' = Append(recorded, Head(inflight).pct10)
  /\ inflight' = Tail(inflight)
  /\ UNCHANGED <<nextId, now, version, hostVars, reply, pc, cur, localIn, localOut, thrown,
                 returned, disk, cloud, engine, executions, faults>>
  /\ events' = Emit(<<Event("progress", curQueue, curId, Head(inflight))>>)
  /\ UNCHANGED relayRest

\* Stage 3: progress 95
Stage3Progress ==
  /\ pc = "stage3"
  /\ AwaitUpdateProgress(Progress("uploading", 950), "upload")
  /\ UNCHANGED <<nextId, now, version, hostVars, reply, cur, localIn, localOut, returned,
                 disk, cloud, engine, inflight, executions>>
  /\ UNCHANGED relayRest

\* JavaScript truthiness of job.data.originalPublicId
HasOriginalId(job) ==
  LET id == Field(job.data, "originalPublicId") IN id # None /\ id[1] # ""

\* An upload that logs its error and returns
uploadFile_SwallowsError(c, run) ==
  {[cloud |-> [c EXCEPT !.resized = @ \cup {run}], error |-> None],
   [cloud |-> c, error |-> None]}

\* uploadFile(localPath, publicId): the artifact of this run is published, or
\* the upload fails and uploadFile throws "Cloudinary upload failed: ..."
uploadFile(c, run) ==
  {[cloud |-> [c EXCEPT !.resized = @ \cup {run}], error |-> None],
   [cloud |-> c, error |-> Some(Reason("Cloudinary upload failed", FALSE))]}

\* await uploadFile(localOut, publicIdResized); a failing upload is a fault of
\* the environment
Upload ==
  /\ pc = "upload"
  /\ \E out \in uploadFile(cloud, executions) :
       /\ IF out.cloud # cloud
            THEN localOut[1] \in {f.path : f \in disk} /\ UNCHANGED faults
            ELSE faults < MaxFaults /\ faults' = faults + 1
       /\ cloud' = out.cloud
       /\ thrown' = out.error
       /\ pc' = IF out.error # None THEN "finally_in"
                ELSE IF HasOriginalId(curJob) THEN "stage4" ELSE "final"
  /\ UNCHANGED <<apiVars, hostVars, cur, localIn, localOut, returned, disk, engine,
                 inflight, recorded, executions>>
  /\ UNCHANGED relayVars

\* Stage 4: progress 98, when the job has an originalPublicId
Stage4Progress ==
  /\ pc = "stage4"
  /\ AwaitUpdateProgress(Progress("cleanup", 980), "delete")
  /\ UNCHANGED <<nextId, now, version, hostVars, reply, cur, localIn, localOut, returned,
                 disk, cloud, engine, inflight, executions>>
  /\ UNCHANGED relayRest

\* deleteFile rethrowing the error, or the result that is not ok, it logs
deleteFile_Rethrows(c) ==
  {[cloud |-> [c EXCEPT !.original = "deleted"], error |-> None],
   [cloud |-> c, error |-> Some(Reason("Cloudinary delete failed", FALSE))]}

\* deleteFile(publicId) with a public id: the outcomes of destroy(). The
\* original is deleted, or the result is not "ok" or destroy() throws, which
\* deleteFile logs; it throws in no case.
deleteFile(c) ==
  {[cloud |-> [c EXCEPT !.original = "deleted"], error |-> None],
   [cloud |-> c, error |-> None]}

\* await deleteFile(originalPublicId)
DeleteOriginal ==
  /\ pc = "delete"
  /\ \E out \in deleteFile(cloud) :
       /\ cloud' = out.cloud
       /\ thrown' = out.error
       /\ pc' = IF out.error = None THEN "final" ELSE "finally_in"
  /\ UNCHANGED <<apiVars, hostVars, cur, localIn, localOut, returned, disk, engine,
                 inflight, recorded, executions, faults>>
  /\ UNCHANGED relayVars

\* Progress 100 and return { resizedUrl, target }
FinalProgress ==
  /\ pc = "final"
  /\ AwaitUpdateProgress(Progress("completed", 1000), "finally_in")
  /\ returned' = IF thrown' = None
                   THEN Some([resizedUrl |-> executions, target |-> curJob.data.target])
                   ELSE returned
  /\ UNCHANGED <<nextId, now, version, hostVars, reply, cur, localIn, localOut,
                 disk, cloud, engine, inflight, executions>>
  /\ UNCHANGED relayRest

\* finally: if (localIn) await cleanupTempFile(localIn). An error thrown
\* inside finally would replace the outcome of the try block and skip the rest
\* of the finally block.
FinallyIn ==
  /\ pc = "finally_in"
  /\ IF localIn # None
       THEN \E left \in cleanupTempFile(disk, localIn[1], faults) :
              /\ disk' = left.disk
              /\ faults' = left.faults
              /\ thrown' = IF left.error # None THEN left.error ELSE thrown
              /\ pc' = IF left.error # None THEN "settle" ELSE "finally_out"
       ELSE /\ pc' = "finally_out"
            /\ UNCHANGED <<disk, faults, thrown>>
  /\ UNCHANGED <<apiVars, hostVars, cur, localIn, localOut, returned, cloud, engine,
                 inflight, recorded, executions>>
  /\ UNCHANGED relayVars

\* finally: if (localOut) await cleanupTempFile(localOut)
FinallyOut ==
  /\ pc = "finally_out"
  /\ IF localOut # None
       THEN \E left \in cleanupTempFile(disk, localOut[1], faults) :
              /\ disk' = left.disk
              /\ faults' = left.faults
              /\ thrown' = IF left.error # None THEN left.error ELSE thrown
       ELSE UNCHANGED <<disk, faults, thrown>>
  /\ pc' = "settle"
  /\ UNCHANGED <<apiVars, hostVars, cur, localIn, localOut, returned, cloud, engine,
                 inflight, recorded, executions>>
  /\ UNCHANGED relayVars

\* The processor's promise settles and the Worker reports it to the broker.
Settle ==
  /\ pc = "settle"
  /\ inflight = <<>>
  /\ broker' = [broker EXCEPT ![curQueue][curId] =
                  IF thrown = None THEN moveToCompleted(@, returned[1])
                  ELSE moveToFailed(@, thrown[1])]
  /\ pc' = "idle"
  /\ cur' = None
  /\ UNCHANGED <<nextId, now, version, hostVars, reply, localIn, localOut, thrown, returned,
                 disk, cloud, engine, inflight, recorded, executions, faults>>
  /\ events' = Emit(FinishedEvents(curQueue, curId, broker'[curQueue][curId]))
  /\ UNCHANGED relayRest

\* The submissions the worker specification draws its job from.
WorkerArgs ==
  {a \in EnqueueArgs :
     \/ a.resolution = 360 /\ a.userId = "u1" /\ a.originalPublicId # ""
     \/ a.resolution = 480 /\ a.userId = "u2" /\ a.originalPublicId = ""
     \/ a.resolution = 720 /\ a.userId = "u1" /\ a.originalPublicId # ""}

WorkerArgsLegacy ==
  {a \in EnqueueArgsLegacy :
     \/ a.resolution = 480 /\ a.userId = "u2"
     \/ a.resolution = 720 /\ a.userId = "u1"}

\* One job is submitted to a worker's queue.
SubmitJob ==
  /\ JobCount = 0
  /\ SubmitFrom(WorkerArgs) \/ SubmitLegacyFrom(WorkerArgsLegacy)
  /\ UNCHANGED <<workerVars, relayVars>>

InitPipeline == InitBroker /\ InitWorker /\ InitRelay(FALSE)

NextPipeline ==
  \/ SubmitJob
  \/ Lease
  \/ Stage1Progress
  \/ Download
  \/ Stage2Progress
  \/ ConvertStart
  \/ FfmpegMarker
  \/ FfmpegClose
  \/ FfmpegError
  \/ BrokerApplyProgress
  \/ Stage3Progress
  \/ Upload
  \/ Stage4Progress
  \/ DeleteOriginal
  \/ FinalProgress
  \/ FinallyIn
  \/ FinallyOut
  \/ Settle

SpecPipeline == InitPipeline /\ [][NextPipeline]_vars

\* A step of the running worker, of the broker that serves it, or of a call
\* to the storage service or the transcoding tool that returns or fails
WorkerStep ==
  \/ Lease
  \/ Stage1Progress
  \/ Download
  \/ Stage2Progress
  \/ ConvertStart
  \/ FfmpegMarker
  \/ FfmpegClose
  \/ FfmpegError
  \/ BrokerApplyProgress
  \/ Stage3Progress
  \/ Upload
  \/ Stage4Progress
  \/ DeleteOriginal
  \/ FinalProgress
  \/ FinallyIn
  \/ FinallyOut
  \/ Settle

(***************************************************************************)
(* Event relay (events/queueEvents.ts)                                     *)
(***************************************************************************)
PROGRESS_THROTTLE_MS == 250

\* Date.now() advances by a multiple of TickMs between two reads, and by
\* MaxTicks * TickMs at most in one behaviour.
TickMs == 150
MaxTicks == 3

\* What a read of Date.now() may return
ClockReads == {t \in {now + k * TickMs : k \in 0..MaxTicks} : t <= StartTime + MaxTicks * TickMs}

\* Progress events the workers of one behaviour emit at most.
MaxProgressEvents == 3

\* lastProgressEmit.get(jobId) ?? 0
lastEmit(jobId) ==
  IF jobId \in DOMAIN lastProgressEmit THEN lastProgressEmit[jobId] ELSE 0

\* The throttle lets an event pass although less than the interval has elapsed
Throttled_Never(t, last) == FALSE

\* if (now - last < PROGRESS_THROTTLE_MS) return
Throttled(t, last) == t - last < PROGRESS_THROTTLE_MS

\* lastProgressEmit.set(jobId, t)
MapSet(m, k, v) == [x \in DOMAIN m \cup {k} |-> IF x = k THEN v ELSE m[x]]

\* lastProgressEmit.delete(jobId)
MapDelete(m, k) == [x \in DOMAIN m \ {k} |-> m[x]]

\* getJobOwner(queue, jobId): job?.data?.userId || null
getJobOwner(q, jobId) ==
  LET job == getJob(q, jobId) IN
  IF job = None THEN None
  ELSE LET userId == Field(job[1].data, "userId") IN
       IF userId = None \/ userId[1] = "" THEN None ELSE userId

\* io.to(userId).emit(event, { jobId, queueName, ...payload }), with the user
\* who submitted the job and the progress event it answers
Delivery(event, userId, h) ==
  [event |-> event, channel |-> userId, queueName |-> h.queue, jobId |-> h.jobId,
   payload |-> h.data, submittedBy |-> broker[h.queue][h.jobId].submittedBy,
   answers |-> h.answers]

\* A handler that awaits getJobOwner; answers is the index in handled of the
\* progress event it handles, 0 for other events
Handler(ev, answers) ==
  [kind |-> ev.kind, queue |-> ev.queue, jobId |-> ev.jobId, data |-> ev.data,
   answers |-> answers]

ProgressEventCount ==
  Len(handled) + Cardinality({i \in DOMAIN events : events[i].kind = "progress"})

\* The sequence s without its n-th element
Without(s, n) == SubSeq(s, 1, n - 1) \o SubSeq(s, n + 1, Len(s))

\* Owner lookups answered in any order
Resolvable_AnyOrder(lookups) == DOMAIN lookups

\* The awaited lookups that can be answered next: Job.fromId sends one HGETALL
\* on the connection all the queues share, and a connection answers its
\* commands in the order they were sent.
Resolvable(lookups) == IF lookups = <<>> THEN {} ELSE {1}

\* A worker's processor updates the progress of an active job.
WorkerProgress ==
  \E q \in QueueNames : \E j \in DOMAIN broker[q] :
    LET p == [stage |-> "processing", pct10 |-> 500] IN
    /\ broker[q][j].state = "active"
    /\ StreamHasRoom
    /\ ProgressEventCount < MaxProgressEvents
    /\ broker' = [broker EXCEPT ![q][j].progress = p]
    /\ events' = Emit(<<Event("progress", q, j, p)>>)
    /\ UNCHANGED <<nextId, now, version, hostVars, reply, workerVars, relayRest>>

\* qe.on("progress") up to its await: the throttle check and the map update
OnProgress ==
  /\ events # <<>>
  /\ Head(events).kind = "progress"
  /\ \E t \in ClockReads :
       LET ev == Head(events)
           passes == ~Throttled(t, lastEmit(ev.jobId))
       IN /\ now' = t
          /\ handled' = Append(handled,
                               [queue |-> ev.queue, jobId |-> ev.jobId, at |-> t,
                                passed |-> passes,
                                resolvable |-> getJobOwner(ev.queue, ev.jobId) # None,
                                delivered |-> FALSE, clears |-> 0])
          /\ IF passes
               THEN /\ lastProgressEmit' = MapSet(lastProgressEmit, ev.jobId, t)
                    /\ pending' = Append(pending, Handler(ev, Len(handled) + 1))
               ELSE UNCHANGED <<lastProgressEmit, pending>>
  /\ events' = Tail(events)
  /\ UNCHANGED <<broker, nextId, version, hostVars, reply, workerVars, relayUp, delivered>>

\* qe.on("progress") after its await: the emit when the owner resolved
ProgressEmit ==
  \E n \in Resolvable(pending) :
    LET h == pending[n]
        userId == getJobOwner(h.queue, h.jobId)
    IN
    /\ h.kind = "progress"
    /\ pending' = Without(pending, n)
    /\ IF userId # None
         THEN /\ delivered' = Append(delivered, Delivery("job:progress", userId[1], h))
              /\ handled' = [handled EXCEPT ![h.answers].delivered = TRUE]
         ELSE /\ handled' = [handled EXCEPT ![h.answers].resolvable = FALSE]
              /\ UNCHANGED delivered
    /\ UNCHANGED <<apiVars, hostVars, workerVars, relayUp, events, lastProgressEmit>>

\* A completed handler that leaves out a job whose progress was emitted less
\* than the throttle interval before
completedEmit_Throttled(userId, h) ==
  IF userId # None /\ ~Throttled(now, lastEmit(h.jobId))
    THEN Append(delivered, Delivery("job:completed", userId[1], h))
    ELSE delivered

\* qe.on("completed") after its await: if (userId) io.to(userId).emit(...)
completedEmit(userId, h) ==
  IF userId # None
    THEN Append(delivered, Delivery("job:completed", userId[1], h))
    ELSE delivered

\* qe.on("completed") up to its await
OnCompleted ==
  /\ events # <<>>
  /\ Head(events).kind = "completed"
  /\ pending' = Append(pending, Handler(Head(events), 0))
  /\ events' = Tail(events)
  /\ UNCHANGED <<apiVars, hostVars, workerVars, relayUp, lastProgressEmit, delivered, handled>>

\* qe.on("completed") after its await
CompletedEmit ==
  \E n \in Resolvable(pending) :
    LET h == pending[n]
        userId == getJobOwner(h.queue, h.jobId)
    IN
    /\ h.kind = "completed"
    /\ pending' = Without(pending, n)
    /\ delivered' = completedEmit(userId, h)
    /\ UNCHANGED <<apiVars, hostVars, workerVars, relayUp, events, lastProgressEmit, handled>>

\* qe.on("failed") up to its await
OnFailed ==
  /\ events # <<>>
  /\ Head(events).kind = "failed"
  /\ pending' = Append(pending, Handler(Head(events), 0))
  /\ events' = Tail(events)
  /\ UNCHANGED <<apiVars, hostVars, workerVars, relayUp, lastProgressEmit, delivered, handled>>

\* qe.on("failed") after its await: the emit, then the throttle entry is deleted
FailedEmit ==
  \E n \in Resolvable(pending) :
    LET h == pending[n]
        userId == getJobOwner(h.queue, h.jobId)
    IN
    /\ h.kind = "failed"
    /\ pending' = Without(pending, n)
    /\ delivered' = IF userId # None
                      THEN Append(delivered, Delivery("job:failed", userId[1], h))
                      ELSE delivered
    /\ lastProgressEmit' = MapDelete(lastProgressEmit, h.jobId)
    /\ handled' = [i \in DOMAIN handled |->
                     IF handled[i].jobId = h.jobId
                       THEN [handled[i] EXCEPT !.clears = @ + 1]
                       ELSE handled[i]]
    /\ UNCHANGED <<apiVars, hostVars, workerVars, relayUp, events>>

\* The submissions that precede the relay specification's initial state:
\* u2 with metadata whose keys have the names of core fields, then u1; both
\* jobs get the id 1, each in its queue.
RelayArgs ==
  <<[srcUrl |-> "https://cdn/original/v1.mp4", userId |-> "u2", resolution |-> 480,
     originalPublicId |-> "", jobMeta |-> CoreNamedMeta],
    [srcUrl |-> "https://cdn/original/v1.mp4", userId |-> "u1", resolution |-> 720,
     originalPublicId |-> "", jobMeta |-> PlainMeta]>>

\* The broker after enqueueVideoTranscode has run for the first n of RelayArgs
RECURSIVE Submitted(_)
Submitted(n) ==
  IF n = 0 THEN [broker |-> [q \in QueueNames |-> <<>>],
                 nextId |-> [q \in QueueNames |-> 1]]
  ELSE LET before == Submitted(n - 1)
       IN enqueueInto(before.broker, before.nextId, StartTime, RelayArgs[n])

\* The current version of the service is deployed, the jobs of RelayArgs are
\* submitted and the relay is subscribed.
InitRelayed ==
  /\ broker = Submitted(Len(RelayArgs)).broker
  /\ nextId = Submitted(Len(RelayArgs)).nextId
  /\ now = StartTime
  /\ version = "current"
  /\ reply = [op |-> "none"]
  /\ InitWorker
  /\ InitRelay(TRUE)
  /\ InitHosts

\* A caller removes a job that has been submitted and is not locked.
RemoveRelayed ==
  \E r \in AllowedRes :
    \E j \in {i \in DOMAIN broker[RES_TO_QUEUE[r]] : JobRemovable(broker[RES_TO_QUEUE[r]][i])} :
      LET out == removeVideoJobByRes(r, j) IN
      /\ broker' = out.broker
      /\ reply' = [op |-> "remove", resolution |-> r,
                   jobId |-> j, result |-> out.result]
      /\ UNCHANGED <<nextId, now, version, hostVars, workerVars, relayVars>>

NextRelay ==
  \/ RemoveRelayed
  \/ WorkerLease
  \/ WorkerProgress
  \/ WorkerComplete
  \/ WorkerFail
  \/ OnProgress
  \/ ProgressEmit
  \/ OnCompleted
  \/ CompletedEmit
  \/ OnFailed
  \/ FailedEmit

SpecRelay == InitRelayed /\ [][NextRelay]_vars

\* QueueEvents errors in one behaviour.
MaxQueueErrors == 1

\* An error handler that closes the subscription it is told about
qeOnError_Closes(parts, q) == [parts EXCEPT ![q] = "closing"]

\* qe.on("error") of the subscription of queue q: the error is logged, the
\* subscriptions and adapter clients are left as they are
qeOnError(parts, q) == parts

\* The QueueEvents of a queue emits "error" (its connection to the broker
\* failed, say); the listener logs it. The log entry notes how many emits
\* the relay had made by then.
QueueEventsError ==
  \E q \in QueueNames :
    /\ relayUp
    /\ exitCode = None
    /\ bridge[q] = "open"
    /\ Len(qeErrors) < MaxQueueErrors
    /\ bridge' = qeOnError(bridge, q)
    /\ qeErrors' = Append(qeErrors, [queue |-> q, seen |-> Len(delivered)])
    /\ UNCHANGED <<apiVars, workerVars, relayVars, leaseVars, signals, fleet, statusCall, hook>>
    /\ UNCHANGED <<isShuttingDown, forceExitTimer, graceful, exitCode>>

\* The relay with the error listener of its subscriptions, relaying the
\* events with which jobs end
NextSubscribed ==
  \/ WorkerLease
  \/ WorkerComplete
  \/ WorkerFail
  \/ OnCompleted
  \/ CompletedEmit
  \/ OnFailed
  \/ FailedEmit
  \/ QueueEventsError

SpecSubscribed == InitRelayed /\ [][NextSubscribed]_vars

(***************************************************************************)
(* Several relay instances (events/queueEvents.ts run by each of them)     *)
(***************************************************************************)
\* Events of the stream the instances read in one behaviour.
MaxFleetEvents == 2

\* The name of the socket event a handler emits
SocketEvent(kind) ==
  CASE kind = "progress" -> "job:progress"
    [] kind = "completed" -> "job:completed"
    [] kind = "failed" -> "job:failed"

\* The stream without the events every instance has read: each instance's
\* QueueEvents reads the whole stream with a position of its own.
Trimmed(f, stream) ==
  IF \A r \in Relays : f.relays[r].cursor > 1
    THEN [stream |-> Tail(stream),
          fleet |-> [f EXCEPT !.read = @ + 1,
                              !.relays = [r \in Relays |->
                                            [@[r] EXCEPT !.cursor = @ - 1]]]]
    ELSE [stream |-> stream, fleet |-> f]

\* The handler of instance r for the next event of its subscription, up to
\* its await of getJobOwner: a progress event passes the throttle map of this
\* instance; the other events always go on to the lookup.
FleetOn ==
  \E r \in Relays :
    LET me == fleet.relays[r] IN
    /\ me.cursor <= Len(events)
    /\ fleet.read + me.cursor <= MaxFleetEvents
    /\ LET ev == events[me.cursor]
           eventNo == fleet.read + me.cursor
           last == IF ev.jobId \in DOMAIN me.lastProgressEmit
                     THEN me.lastProgressEmit[ev.jobId] ELSE 0
       IN \E t \in IF ev.kind = "progress" THEN ClockReads ELSE {now} :
            LET passes == ev.kind # "progress" \/ ~Throttled(t, last)
                lookup == [kind |-> ev.kind, queue |-> ev.queue, jobId |-> ev.jobId,
                           eventNo |-> eventNo]
                after == [cursor |-> me.cursor + 1,
                          lastProgressEmit |->
                            IF ev.kind = "progress" /\ passes
                              THEN MapSet(me.lastProgressEmit, ev.jobId, t)
                              ELSE me.lastProgressEmit,
                          pending |-> IF passes THEN Append(me.pending, lookup)
                                      ELSE me.pending]
                out == Trimmed([fleet EXCEPT !.relays[r] = after], events)
            IN /\ now' = t
               /\ fleet' = out.fleet
               /\ events' = out.stream
    /\ UNCHANGED <<broker, nextId, version, reply, workerVars, relayRest>>
    /\ UNCHANGED <<leaseVars, exitVars, signals, qeErrors, statusCall, hook>>

\* The handler of instance r after its await: io.to(userId).emit(...) when the
\* owner was found; the adapter carries the emit to the sockets of the user's
\* channel on every instance. The failed handler then deletes the throttle
\* entry of this instance.
FleetEmit ==
  \E r \in Relays :
    LET me == fleet.relays[r] IN
    /\ me.pending # <<>>
    /\ LET h == Head(me.pending)
           userId == getJobOwner(h.queue, h.jobId)
       IN fleet' = [fleet EXCEPT
            !.relays[r] = [me EXCEPT
               !.pending = Tail(@),
               !.lastProgressEmit = IF h.kind = "failed" THEN MapDelete(@, h.jobId)
                                    ELSE @],
            !.delivered = IF userId # None
                            THEN Append(@, [event |-> SocketEvent(h.kind),
                                            channel |-> userId[1],
                                            queueName |-> h.queue, jobId |-> h.jobId,
                                            eventNo |-> h.eventNo, from |-> r])
                            ELSE @]
    /\ UNCHANGED <<apiVars, workerVars, relayVars>>
    /\ UNCHANGED <<leaseVars, exitVars, signals, qeErrors, statusCall, hook>>

NextFleet ==
  \/ WorkerLease
  \/ WorkerProgress
  \/ WorkerComplete
  \/ WorkerFail
  \/ FleetOn
  \/ FleetEmit

SpecFleet == InitRelayed /\ [][NextFleet]_vars

(***************************************************************************)
(* Worker processes (workers/video.worker.ts): concurrency slots and the   *)
(* broker's job locks                                                      *)
(***************************************************************************)
\* QUEUE_NAME_TO_RES
QUEUE_NAME_TO_RES ==
  [q \in QueueNames |->
     CASE q = queue360 -> 360
       [] q = queue480 -> 480
       [] q = queue720 -> 720
       [] q = queue1080 -> 1080]

\* const { timeoutMs } = RES_JOB_OPTS[resFromQueue]
timeoutMs == RES_JOB_OPTS[QUEUE_NAME_TO_RES[QUEUE_NAME]].timeoutMs

\* A lock duration equal to the maximum processing duration, with no margin
lockDuration_NoMargin == timeoutMs

\* lockDuration: timeoutMs + 60_000
lockDuration == timeoutMs + 60000

\* The broker's default: a job found stalled more often than this is failed.
maxStalledCount == 1

\* The attempt a slot executes: the job and the time the slot leased it
Attempt(j, t) == [job |-> j, since |-> t]

\* The lock key of job j exists (the broker expires it at its time)
Locked(j) == j \in DOMAIN locks /\ locks[j].until > now

\* Slot s holds the lock of job j
LockHeld(j, s) == Locked(j) /\ locks[j].owner = s

\* The slots that execute job j
Executing(j) == {s \in Slots : slots[s] # None /\ slots[s][1].job = j}

\* How often job j was found stalled
Stalls(j) == IF j \in DOMAIN stalledCount THEN stalledCount[j] ELSE 0

\* A free slot of a running worker leases a job: the job becomes active and
\* the slot gets its lock for lockDuration.
LeaseSlot ==
  \E s \in Slots : \E j \in DOMAIN broker[QUEUE_NAME] :
    /\ proc[s[1]] = "running"
    /\ Usable(s)
    /\ slots[s] = None
    /\ Leasable(broker[QUEUE_NAME][j])
    /\ broker' = [broker EXCEPT ![QUEUE_NAME][j] = moveToActive(@)]
    /\ locks' = MapSet(locks, j, [owner |-> s, until |-> now + lockDuration])
    /\ slots' = [slots EXCEPT ![s] = Some(Attempt(j, now))]
    /\ UNCHANGED <<nextId, now, version, reply, workerVars, relayVars>>
    /\ UNCHANGED <<QUEUE_NAME, WORKER_CONCURRENCY, proc, stalledCount, exitVars, signals, fleetVars>>

\* The Worker's lock renewal timer extends the lock of a job a slot executes,
\* if the slot still holds it; a renewal may also fail to reach the broker,
\* which is this action not taken.
ExtendLock ==
  \E s \in Slots :
    /\ slots[s] # None
    /\ LockHeld(slots[s][1].job, s)
    /\ locks[slots[s][1].job].until < now + lockDuration
    /\ locks' = [locks EXCEPT ![slots[s][1].job].until = now + lockDuration]
    /\ UNCHANGED <<apiVars, workerVars, relayVars>>
    /\ UNCHANGED <<QUEUE_NAME, WORKER_CONCURRENCY, proc, slots, stalledCount, exitVars, signals, fleetVars>>

\* Steps of the clock the model follows.
MaxClockSteps == 3

\* The step in which the model lets time pass: more than half of the
\* maximum processing duration, so that two steps exceed lockDuration
ClockStep == timeoutMs \div 2 + 60000

\* Time passes.
Advance ==
  /\ now + ClockStep <= StartTime + MaxClockSteps * ClockStep
  /\ now' = now + ClockStep
  /\ UNCHANGED <<broker, nextId, version, reply, workerVars, relayVars, hostVars>>

\* The stalled-jobs check a running Worker performs: an active job whose lock
\* has expired goes back to the waiting jobs, or is failed when it has
\* stalled more than maxStalledCount times.
moveStalledJobsToWait ==
  \E j \in DOMAIN broker[QUEUE_NAME] :
    /\ \E w \in Workers : proc[w] = "running"
    /\ broker[QUEUE_NAME][j].state = "active"
    /\ ~Locked(j)
    /\ stalledCount' = MapSet(stalledCount, j, Stalls(j) + 1)
    /\ locks' = MapDelete(locks, j)
    /\ broker' = [broker EXCEPT ![QUEUE_NAME][j] =
                    IF Stalls(j) + 1 > maxStalledCount
                      THEN [@ EXCEPT !.state = "failed",
                                     !.failedReason = Some(Reason(
                                        "job stalled more than allowable limit", FALSE))]
                      ELSE [@ EXCEPT !.state = "waiting"]]
    /\ UNCHANGED <<nextId, now, version, reply, workerVars, relayVars>>
    /\ UNCHANGED <<QUEUE_NAME, WORKER_CONCURRENCY, proc, slots, exitVars, signals, fleetVars>>

\* The processor of a slot settles, by returning (ok) or by throwing. The
\* Worker reports it to the broker, which records it if the slot still holds
\* the job's lock and refuses it otherwise.
SlotSettle ==
  \E s \in Slots, ok \in BOOLEAN :
    /\ slots[s] # None
    /\ LET j == slots[s][1].job IN
       IF LockHeld(j, s)
         THEN /\ broker' = [broker EXCEPT ![QUEUE_NAME][j] =
                    IF ok THEN moveToCompleted(@, [resizedUrl |-> "https://cdn/resized.mp4",
                                                   target |-> @.data.target])
                    ELSE moveToFailed(@, Reason("Video processing failed with exit code", TRUE))]
              /\ locks' = MapDelete(locks, j)
         ELSE UNCHANGED <<broker, locks>>
    /\ slots' = [slots EXCEPT ![s] = None]
    /\ UNCHANGED <<nextId, now, version, reply, workerVars, relayVars>>
    /\ UNCHANGED <<QUEUE_NAME, WORKER_CONCURRENCY, proc, stalledCount, exitVars, signals, fleetVars>>

\* The jobs that wait in the worker's queue q when the lease model starts
LeaseArgs(q) ==
  <<[srcUrl |-> "https://cdn/original/v1.mp4", userId |-> "u1",
     resolution |-> QUEUE_NAME_TO_RES[q], originalPublicId |-> "original/v1",
     jobMeta |-> PlainMeta],
    [srcUrl |-> "https://cdn/original/v1.mp4", userId |-> "u2",
     resolution |-> QUEUE_NAME_TO_RES[q], originalPublicId |-> "original/v1",
     jobMeta |-> PlainMeta]>>

\* The broker after enqueueVideoTranscode has run for the first n of args
RECURSIVE SubmittedOf(_, _)
SubmittedOf(args, n) ==
  IF n = 0 THEN [broker |-> [q \in QueueNames |-> <<>>],
                 nextId |-> [q \in QueueNames |-> 1]]
  ELSE LET before == SubmittedOf(args, n - 1)
       IN enqueueInto(before.broker, before.nextId, StartTime, args[n])

\* Worker processes are started for one of the router's queues, in which the
\* jobs of LeaseArgs wait. (A worker started for video_1080p stops at once:
\* RES_JOB_OPTS has no entry for 1080.)
InitQueued ==
  /\ QUEUE_NAME \in {RES_TO_QUEUE[r] : r \in AllowedRes}
  /\ broker = SubmittedOf(LeaseArgs(QUEUE_NAME), MaxJobs).broker
  /\ nextId = SubmittedOf(LeaseArgs(QUEUE_NAME), MaxJobs).nextId
  /\ now = StartTime
  /\ version = "current"
  /\ reply = [op |-> "none"]
  /\ InitWorker
  /\ InitRelay(FALSE)
  /\ InitWorkers
  /\ InitServer
  /\ signals = 0
  /\ WORKER_CONCURRENCY = None

NextLease ==
  \/ LeaseSlot
  \/ ExtendLock
  \/ Advance
  \/ moveStalledJobsToWait
  \/ SlotSettle

SpecLease == InitQueued /\ [][NextLease]_vars

\* The module level of video.worker.ts for a value of QUEUE_NAME: the process
\* exits with code 1 for a missing or unknown name, the destructuring of
\* RES_JOB_OPTS[resFromQueue] throws when the table has no entry for the
\* resolution, and the Worker is created otherwise.
WorkerStartup(name) ==
  IF name \notin DOMAIN QUEUE_NAME_TO_RES THEN "exited"
  ELSE IF QUEUE_NAME_TO_RES[name] \notin DOMAIN RES_JOB_OPTS THEN "crashed"
  ELSE "running"

\* A worker process runs the module level of video.worker.ts.
StartWorker ==
  \E w \in Workers :
    /\ proc[w] = "starting"
    /\ proc' = [proc EXCEPT ![w] = WorkerStartup(QUEUE_NAME)]
    /\ UNCHANGED <<apiVars, workerVars, relayVars>>
    /\ UNCHANGED <<QUEUE_NAME, WORKER_CONCURRENCY, slots, locks, stalledCount, exitVars, signals, fleetVars>>

\* One job for each resolution the router accepts
BootArgs ==
  [i \in DOMAIN ALLOWED_RESOLUTIONS |->
    [srcUrl |-> "https://cdn/original/v1.mp4", userId |-> "u1",
     resolution |-> ALLOWED_RESOLUTIONS[i], originalPublicId |-> "original/v1",
     jobMeta |-> PlainMeta]]

\* The router has queued a job for each of its resolutions; worker processes
\* are about to be started for one of the names the worker accepts.
InitBoot ==
  /\ QUEUE_NAME \in DOMAIN QUEUE_NAME_TO_RES
  /\ WORKER_CONCURRENCY \in {None, Some("1")}
  /\ broker = SubmittedOf(BootArgs, Len(BootArgs)).broker
  /\ nextId = SubmittedOf(BootArgs, Len(BootArgs)).nextId
  /\ now = StartTime
  /\ version = "current"
  /\ reply = [op |-> "none"]
  /\ InitWorker
  /\ InitRelay(FALSE)
  /\ proc = [w \in Workers |-> "starting"]
  /\ slots = [s \in Slots |-> None]
  /\ locks = <<>>
  /\ stalledCount = <<>>
  /\ InitServer
  /\ signals = 0

NextBoot ==
  \/ StartWorker
  \/ LeaseSlot
  \/ SlotSettle

SpecBoot == InitBoot /\ [][NextBoot]_vars

\* The submissions the attempts model starts with, for queue q: a job with an
\* original to delete after the upload, or one without
AttemptArgs(q) ==
  {[srcUrl |-> "https://cdn/original/v1.mp4", userId |-> "u1",
    resolution |-> QUEUE_NAME_TO_RES[q], originalPublicId |-> id,
    jobMeta |-> PlainMeta] : id \in {"original/v1", ""}}

\* The resolutions of the attempts model: one of each attempt budget (3 and 4)
AttemptResolutions == {r \in AllowedRes : r # 480}

\* One job waits in a queue of the router and the worker is idle.
InitAttempts ==
  /\ InitHosts
  /\ \E r \in AttemptResolutions : \E a \in AttemptArgs(RES_TO_QUEUE[r]) :
       /\ broker = SubmittedOf(<<a>>, 1).broker
       /\ nextId = SubmittedOf(<<a>>, 1).nextId
  /\ now = StartTime
  /\ version = "current"
  /\ reply = [op |-> "none"]
  /\ InitWorker
  /\ InitRelay(FALSE)

SpecAttempts == InitAttempts /\ [][WorkerStep]_vars

\* The worker keeps running and every call it awaits returns or fails.
FairSpecAttempts == SpecAttempts /\ WF_vars(WorkerStep)

\* Jobs that wait when the pool model starts.
MaxPoolJobs == 3

\* The jobs that wait in queue q when the pool model starts
PoolArgs(q) ==
  [n \in 1..MaxPoolJobs |->
    [srcUrl |-> "https://cdn/original/v1.mp4", userId |-> "u1",
     resolution |-> QUEUE_NAME_TO_RES[q], originalPublicId |-> "original/v1",
     jobMeta |-> PlainMeta]]

\* Worker processes are started for video_360p with some value of
\* WORKER_CONCURRENCY in their environment, and MaxPoolJobs jobs wait.
InitPool ==
  /\ QUEUE_NAME = queue360
  /\ WORKER_CONCURRENCY \in EnvValues
  /\ broker = SubmittedOf(PoolArgs(QUEUE_NAME), MaxPoolJobs).broker
  /\ nextId = SubmittedOf(PoolArgs(QUEUE_NAME), MaxPoolJobs).nextId
  /\ now = StartTime
  /\ version = "current"
  /\ reply = [op |-> "none"]
  /\ InitWorker
  /\ InitRelay(FALSE)
  /\ InitWorkers
  /\ InitServer
  /\ signals = 0

NextPool ==
  \/ LeaseSlot
  \/ SlotSettle

SpecPool == InitPool /\ [][NextPool]_vars

(***************************************************************************)
(* The status service between its awaits (getVideoJobStatusFromQueue)      *)
(***************************************************************************)
\* The VideoJobStatus built from the job that queue.getJob returned and the
\* state that job.getState() returned afterwards
VideoJobStatus(job, state, queue, jobId, resHint) ==
  [kind |-> "status", jobId |-> jobId,
   resolution |-> IF resHint # None THEN resHint ELSE Field(job.data, "target"),
   queueName |-> queue, state |-> state, progress |-> job.progress,
   result |-> IF state = "completed" THEN job.returnvalue ELSE None,
   error |-> IF state = "failed" THEN job.failedReason ELSE None,
   data |-> job.data]

\* job.getState() and the return of getVideoJobStatusFromQueue: the state is
\* read now, the other fields are those of the job object read before
StatusOfCall(call) ==
  VideoJobStatus(call.job, broker[call.queue][call.jobId].state,
                 call.queue, call.jobId, call.resHint)

\* getVideoJobStatusByRes up to await job.getState(): cleanRes is valid and
\* queue.getJob has returned a job.
StatusGetJob ==
  \E r \in AllowedRes : \E j \in DOMAIN broker[RES_TO_QUEUE[r]] :
    /\ statusCall = None
    /\ validateResolution(r) = Some(r)
    /\ statusCall' = Some([queue |-> RES_TO_QUEUE[r], jobId |-> j, resHint |-> Some(r),
                            job |-> getJob(RES_TO_QUEUE[r], j)[1]])
    /\ UNCHANGED <<apiVars, workerVars, relayVars, leaseVars, exitVars, signals,
                   fleet, qeErrors, hook>>

\* job.getState() resolves and the status is returned.
StatusGetState ==
  /\ statusCall # None
  /\ reply' = [op |-> "getByRes", resolution |-> statusCall[1].resHint[1],
               jobId |-> statusCall[1].jobId, result |-> StatusOfCall(statusCall[1])]
  /\ statusCall' = None
  /\ UNCHANGED <<broker, nextId, now, version, workerVars, relayVars, leaseVars,
                 exitVars, signals, fleet, qeErrors, hook>>

\* The jobs of LeaseArgs wait in video_360p and no relay is subscribed.
InitStatus ==
  /\ broker = SubmittedOf(LeaseArgs(queue360), MaxJobs).broker
  /\ nextId = SubmittedOf(LeaseArgs(queue360), MaxJobs).nextId
  /\ now = StartTime
  /\ version \in {"current", "legacy"}
  /\ reply = [op |-> "none"]
  /\ InitWorker
  /\ InitRelay(FALSE)
  /\ InitHosts

NextStatus ==
  \/ WorkerLease
  \/ WorkerComplete
  \/ WorkerFail
  \/ StatusGetJob
  \/ StatusGetState

SpecStatus == InitStatus /\ [][NextStatus]_vars

(***************************************************************************)
(* The client's upload hook (hooks/useVideoUpload.ts) and its socket       *)
(***************************************************************************)
\* The user whose client runs the hook; the socket of the client has joined
\* the user's room.
HookUser == "u1"

\* What the user may ask the hook for: a resolution the router accepts, or
\* one it rejects
UploadResolutions == {360, 1080}

\* uploadVideo(file, resolution) up to its await, and the upload endpoint of
\* the server: reset(), setStatus("uploading"); the server stores the file
\* and calls enqueueVideoTranscode, and its response is on its way.
HookUploadVideo ==
  \E r \in UploadResolutions :
    LET out == enqueueVideoTranscode(
                 [srcUrl |-> "https://cdn/original/v1.mp4", userId |-> HookUser,
                  resolution |-> r, originalPublicId |-> "original/v1",
                  jobMeta |-> PlainMeta])
    IN
    /\ hook.status \in {"idle", "completed", "failed"}
    /\ JobCount < MaxJobs
    /\ broker' = out.broker
    /\ nextId' = out.nextId
    /\ hook' = [HookIdle EXCEPT !.status = "uploading",
                                !.response = Some(out.result),
                                !.seen = hook.seen]
    /\ UNCHANGED <<now, version, reply, workerVars, relayVars>>
    /\ UNCHANGED <<leaseVars, exitVars, signals, fleet, qeErrors, statusCall>>

\* uploadVideo after its await: jobDetails and setStatus("processing") for a
\* queued job, setStatus("failed") in the catch block for an error response
HookResponse ==
  /\ hook.status = "uploading"
  /\ hook.response # None
  /\ hook' = IF hook.response[1].kind = "enqueued"
               THEN [hook EXCEPT !.status = "processing",
                                 !.jobDetails = Some([jobId |-> hook.response[1].jobId,
                                                      queueName |-> hook.response[1].queueName]),
                                 !.response = None]
               ELSE [hook EXCEPT !.status = "failed", !.response = None]
  /\ UNCHANGED <<apiVars, workerVars, relayVars>>
  /\ UNCHANGED <<leaseVars, exitVars, signals, fleet, qeErrors, statusCall>>

\* The effect of the hook after the render with status "processing": it
\* registers the three listeners, which compare with the job of jobDetails.
HookEffect ==
  /\ hook.status = "processing"
  /\ hook.jobDetails # None
  /\ hook.listening = None
  /\ hook' = [hook EXCEPT !.listening = hook.jobDetails]
  /\ UNCHANGED <<apiVars, workerVars, relayVars>>
  /\ UNCHANGED <<leaseVars, exitVars, signals, fleet, qeErrors, statusCall>>

\* The hook after the listeners have been called with emit e: onCompleted and
\* onFailed set the status for the job they listen for, and the effect's
\* cleanup removes the listeners; onProgress leaves the status.
hookOn(h, e) ==
  IF h.listening # None /\ e.jobId = h.listening[1].jobId
                        /\ e.queueName = h.listening[1].queueName
                        /\ e.event \in {"job:completed", "job:failed"}
    THEN [h EXCEPT !.status = IF e.event = "job:completed" THEN "completed" ELSE "failed",
                   !.jobDetails = None,
                   !.listening = None]
    ELSE h

\* The next emit of the relay reaches the client's socket. An emit to
\* another room does not reach it, and the socket discards an event that has
\* no listener.
SocketReceive ==
  /\ hook.seen < Len(delivered)
  /\ LET e == delivered[hook.seen + 1]
     IN hook' = [(IF e.channel = HookUser THEN hookOn(hook, e) ELSE hook)
                   EXCEPT !.seen = hook.seen + 1]
  /\ UNCHANGED <<apiVars, workerVars, relayVars>>
  /\ UNCHANGED <<leaseVars, exitVars, signals, fleet, qeErrors, statusCall>>

\* No job is queued, the relay is subscribed and the hook is idle.
InitHook ==
  /\ InitHosts
  /\ broker = [q \in QueueNames |-> <<>>]
  /\ nextId = [q \in QueueNames |-> 1]
  /\ now = StartTime
  /\ version = "current"
  /\ reply = [op |-> "none"]
  /\ InitWorker
  /\ InitRelay(TRUE)

NextHook ==
  \/ HookUploadVideo
  \/ HookResponse
  \/ HookEffect
  \/ SocketReceive
  \/ WorkerLease
  \/ WorkerComplete
  \/ WorkerFail
  \/ OnCompleted
  \/ CompletedEmit
  \/ OnFailed
  \/ FailedEmit

SpecHook == InitHook /\ [][NextHook]_vars

\* The client, the worker and the relay keep running, and the network
\* delivers the response and the emits.
FairSpecHook ==
  /\ SpecHook
  /\ WF_vars(HookResponse)
  /\ WF_vars(HookEffect)
  /\ WF_vars(SocketReceive)
  /\ WF_vars(WorkerLease)
  /\ WF_vars(WorkerComplete \/ WorkerFail)
  /\ WF_vars(OnCompleted)
  /\ WF_vars(CompletedEmit)
  /\ WF_vars(OnFailed)
  /\ WF_vars(FailedEmit)

(***************************************************************************)
(* Shutdown of a worker process (workers/video.worker.ts)                  *)
(***************************************************************************)
\* Signals sent in one behaviour.
MaxSignals == 2

\* The slots of worker process w
SlotsOf(w) == {s \in Slots : s[1] = w}

\* process.on("SIGINT"): worker.close() is called; the Worker leases no
\* further job, and close() waits for the jobs its slots execute.
SIGINT ==
  \E w \in Workers :
    /\ signals < MaxSignals
    /\ proc[w] \in {"running", "closing"}
    /\ proc' = [proc EXCEPT ![w] = "closing"]
    /\ signals' = signals + 1
    /\ UNCHANGED <<apiVars, workerVars, relayVars>>
    /\ UNCHANGED <<QUEUE_NAME, WORKER_CONCURRENCY, slots, locks, stalledCount, exitVars, fleetVars>>

\* await worker.close() resolves when no slot executes a job;
\* process.exit(0) follows.
WorkerExit ==
  \E w \in Workers :
    /\ proc[w] = "closing"
    /\ \A s \in SlotsOf(w) : slots[s] = None
    /\ proc' = [proc EXCEPT ![w] = "exited"]
    /\ UNCHANGED <<apiVars, workerVars, relayVars>>
    /\ UNCHANGED <<QUEUE_NAME, WORKER_CONCURRENCY, slots, locks, stalledCount, exitVars, signals, fleetVars>>

\* SIGTERM has no listener in the worker: the runtime's default disposition
\* terminates the process at once, and with it the processors of its slots.
\* The broker keeps the jobs active and locked.
SIGTERM ==
  \E w \in Workers :
    /\ signals < MaxSignals
    /\ proc[w] \in {"running", "closing"}
    /\ proc' = [proc EXCEPT ![w] = "killed"]
    /\ slots' = [s \in Slots |-> IF s[1] = w THEN None ELSE slots[s]]
    /\ signals' = signals + 1
    /\ UNCHANGED <<apiVars, workerVars, relayVars>>
    /\ UNCHANGED <<QUEUE_NAME, WORKER_CONCURRENCY, locks, stalledCount, exitVars, fleetVars>>

NextWorkerExit ==
  \/ LeaseSlot
  \/ SlotSettle
  \/ SIGINT
  \/ WorkerExit
  \/ SIGTERM

SpecWorkerExit == InitQueued /\ [][NextWorkerExit]_vars

\* The runtime runs the continuation of the signal handler once close() has
\* resolved; a processor is not bound to settle.
FairSpecWorkerExit == SpecWorkerExit /\ WF_vars(WorkerExit)

(***************************************************************************)
(* Shutdown of the relay/API process (index.ts, events/queueEvents.ts)     *)
(***************************************************************************)
\* The relay's cleanup up to its await: close() is called on every
\* QueueEvents and disconnect() on both adapter clients
cleanup(parts) == [b \in BridgeParts |-> IF parts[b] = "open" THEN "closing" ELSE parts[b]]

\* gracefulExit(signal, code) up to its first await: the second call exits
\* at once; the first sets the flag, arms the timer and closes the socket
\* server.
gracefulExit(code) ==
  IF isShuttingDown
    THEN /\ exitCode' = Some(code)
         /\ UNCHANGED <<isShuttingDown, forceExitTimer, graceful>>
    ELSE /\ isShuttingDown' = TRUE
         /\ forceExitTimer' = "armed"
         /\ graceful' = [at |-> "io_close", code |-> code]
         /\ UNCHANGED exitCode

\* SIGINT or SIGTERM: the listeners run in the order of their registration,
\* the relay's cleanup (registered by initQueueEvents) before gracefulExit.
OnSignal ==
  /\ exitCode = None
  /\ signals < MaxSignals
  /\ signals' = signals + 1
  /\ bridge' = cleanup(bridge)
  /\ gracefulExit(0)
  /\ UNCHANGED <<apiVars, workerVars, relayVars, leaseVars, fleetVars>>

\* unhandledRejection or uncaughtException: gracefulExit(_, 1); the relay's
\* cleanup is no listener of these.
OnFatalError ==
  /\ exitCode = None
  /\ signals < MaxSignals
  /\ signals' = signals + 1
  /\ gracefulExit(1)
  /\ UNCHANGED <<apiVars, workerVars, relayVars, leaseVars, fleetVars, bridge>>

\* io.close() calls back.
IoClosed ==
  /\ exitCode = None
  /\ graceful.at = "io_close"
  /\ graceful' = [graceful EXCEPT !.at = "server_close"]
  /\ UNCHANGED <<apiVars, workerVars, relayVars, leaseVars, fleetVars>>
  /\ UNCHANGED <<isShuttingDown, forceExitTimer, bridge, exitCode, signals>>

\* server.close() calls back, with an error or without: the timer is
\* cleared and the process exits.
ServerClosed ==
  /\ exitCode = None
  /\ graceful.at = "server_close"
  /\ \E err \in BOOLEAN : exitCode' = Some(IF err THEN 1 ELSE graceful.code)
  /\ forceExitTimer' = "cleared"
  /\ graceful' = [graceful EXCEPT !.at = "done"]
  /\ UNCHANGED <<apiVars, workerVars, relayVars, leaseVars, fleetVars>>
  /\ UNCHANGED <<isShuttingDown, bridge, signals>>

\* The 10 s timer fires: process.exit(1).
ForceExit ==
  /\ exitCode = None
  /\ forceExitTimer = "armed"
  /\ forceExitTimer' = "fired"
  /\ exitCode' = Some(1)
  /\ UNCHANGED <<apiVars, workerVars, relayVars, leaseVars, fleetVars>>
  /\ UNCHANGED <<isShuttingDown, graceful, bridge, signals>>

\* A close() or disconnect() the cleanup has called completes.
BridgeClosed ==
  \E b \in BridgeParts :
    /\ exitCode = None
    /\ bridge[b] = "closing"
    /\ bridge' = [bridge EXCEPT ![b] = "closed"]
    /\ UNCHANGED <<apiVars, workerVars, relayVars, leaseVars, fleetVars>>
    /\ UNCHANGED <<isShuttingDown, forceExitTimer, graceful, exitCode, signals>>

NextServerExit ==
  \/ OnSignal
  \/ OnFatalError
  \/ IoClosed
  \/ ServerClosed
  \/ ForceExit
  \/ BridgeClosed

SpecServerExit == InitApi /\ [][NextServerExit]_vars

(***************************************************************************)
(* Claims about the router and the status service                          *)
(***************************************************************************)
\* The queue name the specification gives each resolution.
DedicatedQueue(r) ==
  CASE r = 360 -> "video_360p" [] r = 480 -> "video_480p" [] r = 720 -> "video_720p"

\* A step in which a submission returned.
SubmitStep == reply' # reply /\ reply'.op = "enqueue"

\* A step in which getVideoJobStatusAnyQueue returned.
AnyQueueStep == reply' # reply /\ reply'.op = "getAny"

\* C1: a submission with a resolution outside {360, 480, 720} signals the
\* validation error and leaves every queue and every id counter as it was.
C1_InvalidSubmitTouchesNoQueue ==
  [][(SubmitStep /\ reply'.resolution \notin {360, 480, 720})
       => /\ reply'.result = ValidationError
          /\ broker' = broker
          /\ nextId' = nextId]_vars

\* An invalid submission was rejected while a queue held a job.
C1_Witness ==
  /\ reply.op = "enqueue"
  /\ reply.resolution = 1080
  /\ reply.result = ValidationError
  /\ \E q \in QueueNames : DOMAIN broker[q] # {}

\* C2: a status lookup or a removal with a resolution outside the enumerated
\* set is answered with the validation error, never with NotFound or false.
C2_InvalidLookupRejects ==
  (reply.op \in {"getByRes", "remove"} /\ reply.resolution \notin {360, 480, 720})
    => reply.result = ValidationError

\* C3: a submission with a valid resolution r adds exactly one job, waiting,
\* to r's dedicated queue, changes no other queue, and returns that queue's
\* name and the new job's id, whatever the owner and the metadata are.
C3_SubmitRoutesByResolution ==
  [][(SubmitStep /\ reply'.resolution \in {360, 480, 720})
       => LET r == reply'.resolution
              q == DedicatedQueue(r)
              id == reply'.result.jobId
          IN /\ reply'.result.kind = "enqueued"
             /\ reply'.result.queueName = q
             /\ reply'.result.resolution = r
             /\ id \notin DOMAIN broker[q]
             /\ DOMAIN broker'[q] = DOMAIN broker[q] \cup {id}
             /\ broker'[q][id].state = "waiting"
             /\ \A j \in DOMAIN broker[q] : broker'[q][j] = broker[q][j]
             /\ \A o \in QueueNames \ {q} : broker'[o] = broker[o]]_vars

\* Two jobs of different owners, one with core-named metadata keys, sit in
\* the queue of 720 after a submission that returned video_720p.
C3_Witness ==
  /\ reply.op = "enqueue"
  /\ reply.resolution = 720
  /\ reply.result.kind = "enqueued"
  /\ reply.result.queueName = "video_720p"
  /\ DOMAIN broker["video_720p"] = {1, 2}
  /\ broker["video_720p"][1].submittedBy # broker["video_720p"][2].submittedBy
  /\ broker["video_720p"][2].data.target = 1080

\* The status the deployed version's lookup by resolution gives.
ByRes(r, j) ==
  IF version = "current" THEN getVideoJobStatusByRes(r, j)
  ELSE getVideoJobStatusByResLegacy(r, j)

\* The resolutions whose queue holds a job with id j.
Holders(j) == {r \in {360, 480, 720} : j \in DOMAIN broker[DedicatedQueue(r)]}

\* C7 as stated: for every resolution r whose queue holds a job with id j,
\* getAny(j) answers what getByResolution(r, j) answers.
C7_AnyEqualsEveryByRes ==
  [][AnyQueueStep
       => \A r \in Holders(reply'.jobId) :
            reply'.result = ByRes(r, reply'.jobId)]_vars

\* C7 amended: getAny(j) answers what getByResolution(r, j) answers for the
\* lowest resolution r whose queue holds a job with id j, and NotFound when
\* no queue holds one.
C7_AnyEqualsFirstHolder ==
  [][AnyQueueStep
       => LET j == reply'.jobId
              first == {r \in Holders(j) : \A o \in Holders(j) : r <= o}
          IN /\ Holders(j) = {} => reply'.result = Null
             /\ \A r \in first : reply'.result = ByRes(r, j)]_vars

\* getAny answered for an id that two queues hold, the lower of them 480.
C7_Witness ==
  /\ reply.op = "getAny"
  /\ Holders(reply.jobId) = {480, 720}
  /\ reply.result.kind = "status"
  /\ reply.result.queueName = "video_480p"


(***************************************************************************)
(* Claims about the worker pipeline and the transcode engine               *)
(***************************************************************************)
Last(seq) == seq[Len(seq)]

NonDecreasing(seq) == \A i \in 1..(Len(seq) - 1) : seq[i] <= seq[i + 1]

\* The attempt the worker holds has run its finally block.
AttemptEnded == pc = "settle"

\* The files on disk that run n of the processor created
FilesOfRun(n) == {f \in disk : f.path.run = n}

\* The runs of the processor that have ended
EndedRuns == {n \in 1..executions : n < executions \/ pc \in {"settle", "idle"}}

C5_LastCallIs100 ==
  [][/\ engine'.settled = "resolved" =>
          /\ engine'.calls # <<>>
          /\ Last(engine'.calls) = 100
     /\ engine.settled = "resolved" /\ engine'.settled = "resolved" =>
          engine'.calls = engine.calls]_vars

\* C5 witness: a run with intermediate markers has resolved and a later step
\* of the pipeline has been taken.
C5_Witness ==
  /\ engine.settled = "resolved"
  /\ Len(engine.calls) > 1
  /\ engine.calls[1] < 100
  /\ pc = "upload"

\* The elapsed times of the markers the stdout handler parsed
ParsedMarkers == SelectSeq(engine.markers, LAMBDA m : m # Unparsable)

\* The progress values (tenths of a percent) a successful attempt records
ExpectedRecorded ==
  <<50, 100>>
    \o [i \in 1..Len(engine.calls) |-> 100 + 8 * engine.calls[i]]
    \o <<950>>
    \o (IF HasOriginalId(curJob) THEN <<980>> ELSE <<>>)
    \o <<1000>>

\* C8: for an attempt that succeeds, given markers with non-decreasing elapsed
\* times, the progress recorded on the job is 5, 10, 10 + 0.8 p for each engine
\* value p, 95, 98 when an original id is present, 100; it is non-decreasing
\* and its last value is 100.
C8_RecordedProgressMonotone ==
  (AttemptEnded /\ returned # None /\ NonDecreasing(ParsedMarkers)) =>
     /\ recorded = ExpectedRecorded
     /\ NonDecreasing(recorded)
     /\ Last(recorded) = 1000

\* C8 witness: an attempt with an original id and two parsed markers at
\* increasing elapsed times has succeeded.
C8_Witness ==
  /\ AttemptEnded
  /\ returned # None
  /\ HasOriginalId(curJob)
  /\ Len(ParsedMarkers) = 2
  /\ ParsedMarkers[1] < ParsedMarkers[2]
  /\ engine.totalDuration > 0
  /\ Len(recorded) = 8

\* The duration probe of the running conversion failed or printed no number.
ProbeFailed ==
  /\ engine.probe # None
  /\ engine.probe[1].error \/ parseFloat(engine.probe[1].stdout) = None

\* C27: when the duration probe fails or prints a value that is no number,
\* the duration is 0: whatever markers the tool prints, no onProgress call is
\* made while the conversion runs, and after exit code 0 exactly one call has
\* been made, with the value 100.
C27_NoDurationOnlyFinalProgress ==
  ProbeFailed =>
    /\ engine.totalDuration = 0
    /\ engine.settled \in {"running", "rejected"} => engine.calls = <<>>
    /\ engine.settled = "resolved" => engine.calls = <<100>>

\* C27 witness: after a failed probe the tool printed markers with elapsed
\* times and exited with code 0.
C27_Witness ==
  /\ ProbeFailed
  /\ engine.probe[1].error
  /\ Len(ParsedMarkers) = MaxMarkers
  /\ engine.settled = "resolved"
  /\ engine.calls = <<100>>

\* A step in which onProgress is called
CallsOnProgress == Len(engine'.calls) = Len(engine.calls) + 1

\* C28: every value passed to onProgress lies within 0..100, also for a
\* marker beyond the duration, and the progress the pipeline reports for it in
\* the processing stage is 10 + 0.8 p, within 10..90.
C28_ProgressWithinBounds ==
  [][CallsOnProgress =>
       LET p == Last(engine'.calls)
           sent == Last(inflight')
       IN /\ p >= 0 /\ p <= 100
          /\ inflight' = Append(inflight, sent)
          /\ sent.stage = "processing"
          /\ sent.pct10 = 100 + 8 * p
          /\ sent.pct10 >= 100 /\ sent.pct10 <= 900]_vars

\* C28 witness: while the conversion runs, a marker beyond the duration has
\* been reported as 100.
C28_Witness ==
  /\ engine.settled = "running"
  /\ engine.totalDuration > 0
  /\ engine.markers # <<>>
  /\ Last(engine.markers) > engine.totalDuration
  /\ engine.calls # <<>>
  /\ Last(engine.calls) = 100

\* The close handler rejects convertResolution: the tool exited with a code
\* other than 0.
CloseRejects ==
  /\ pc = "ffmpeg"
  /\ engine'.settled = "rejected"
  /\ thrown' # None
  /\ thrown'[1].message = "Video processing failed with exit code"

\* C29: when the tool exits with a code other than 0, convertResolution fails
\* with an error that carries the output captured from the tool, no final
\* onProgress(100) is made, and a conversion that has settled does not settle
\* again.
C29_NonzeroExitRejectsOnce ==
  [][/\ CloseRejects =>
          /\ thrown'[1].output = engine'.stderr
          /\ engine'.calls = engine.calls
          /\ inflight' = inflight
     /\ engine.settled \in {"resolved", "rejected"} =>
          \/ engine'.settled = engine.settled
          \/ engine' = EngineIdle]_vars

\* C29 witness: the tool printed diagnostic output and exited with a code
\* other than 0 after a reported marker; the attempt failed with that error.
C29_Witness ==
  /\ engine.settled = "rejected"
  /\ engine.stderr
  /\ engine.calls # <<>>
  /\ Last(engine.calls) < 100
  /\ thrown = Some(closeError(TRUE))
  /\ AttemptEnded

\* A step of the finally block in which unlinking a temporary file failed
CleanupFails ==
  /\ pc \in {"finally_in", "finally_out"}
  /\ faults' = faults + 1

\* The Worker reports the attempt the worker holds to the broker.
Settles == pc = "settle" /\ pc' = "idle"

\* C31: when unlinking a temporary file fails in the finally block, the
\* outcome of the attempt stays what the try block made it, and that outcome
\* is what the broker records: the result of an attempt that succeeded, the
\* original error of one that failed.
C31_CleanupFailureKeepsOutcome ==
  [][/\ CleanupFails => thrown' = thrown /\ returned' = returned
     /\ Settles =>
          LET job == broker'[curQueue][curId] IN
          IF returned # None
            THEN job.state = "completed" /\ job.returnvalue = returned
            ELSE thrown # None /\ job.failedReason = thrown]_vars

\* C31 witness: an attempt that returned its result and left a temporary file
\* it could not unlink has been recorded as completed.
C31_Witness ==
  /\ pc = "idle"
  /\ \E f \in disk : f.stuck /\ f.path.run = executions
  /\ \E q \in QueueNames : \E j \in DOMAIN broker[q] :
       /\ broker[q][j].state = "completed"
       /\ broker[q][j].returnvalue = returned
       /\ returned # None

\* The attempt the worker holds has published its transcoded artifact.
Published == cur # None /\ executions \in cloud.resized

\* C32: when a step after the upload has failed, the attempt is reported to
\* the broker as failed, and the job is retried while attempts of its budget
\* remain; no step of the pipeline removes a transcoded artifact that an
\* attempt has published.
C32_FailureAfterUploadKeepsArtifact ==
  [][/\ cloud.resized \subseteq cloud'.resized
     /\ (Settles /\ Published /\ thrown # None) =>
          LET before == broker[curQueue][curId]
              job == broker'[curQueue][curId]
          IN /\ job.failedReason = thrown
             /\ job.attemptsMade = before.attemptsMade + 1
             /\ job.state = IF job.attemptsMade < job.opts.attempts
                               THEN "delayed" ELSE "failed"]_vars

\* C32 witness: an attempt failed after its upload, and the next attempt of
\* the job runs while the artifact of the earlier one is still published.
C32_Witness ==
  /\ cur # None
  /\ executions > 1
  /\ (executions - 1) \in cloud.resized
  /\ curJob.attemptsMade > 0
  /\ curJob.failedReason = Some(Reason("updateProgress failed", FALSE))
  /\ pc = "download"

\* C33: the original artifact is deleted only by the delete step of an
\* attempt that has published its transcoded output; an attempt that has
\* failed at download, transcode or upload leaves the original as it was.
C33_OriginalDeletedOnlyAfterUpload ==
  [][/\ cloud'.original # cloud.original => pc = "delete" /\ Published
     /\ (cur # None /\ thrown # None /\ ~Published) =>
          cloud'.original = cloud.original]_vars

\* C33 witness: the original is deleted, by an attempt that published its
\* output and returned, after an earlier attempt of the job had failed.
C33_Witness ==
  /\ cloud.original = "deleted"
  /\ executions > 1
  /\ executions \in cloud.resized
  /\ (executions - 1) \notin cloud.resized
  /\ returned # None

\* C37: no attempt of a job starts to download the source after an earlier
\* attempt of the job has deleted the original artifact, and a job whose
\* original has been deleted is not given a further attempt.
C37_NoDownloadOfDeletedOriginal ==
  (cur # None /\ pc \in {"stage1", "download"}) => cloud.original # "deleted"

(***************************************************************************)
(* Claims about the relay and the retry budget                             *)
(***************************************************************************)
\* The handler of the i-th progress event has run to its end.
Finished(i) == \A n \in DOMAIN pending : pending[n].answers # i

\* The i-th and the k-th progress event are consecutive events of one job.
ConsecutiveOfJob(i, k) ==
  /\ i < k
  /\ handled[i].queue = handled[k].queue
  /\ handled[i].jobId = handled[k].jobId
  /\ \A m \in (i + 1)..(k - 1) :
       handled[m].queue # handled[i].queue \/ handled[m].jobId # handled[i].jobId

\* The i-th and the k-th progress event are consecutive among the events
\* that carry one job id, of whichever queue.
ConsecutiveOfId(i, k) ==
  /\ i < k
  /\ handled[i].jobId = handled[k].jobId
  /\ \A m \in (i + 1)..(k - 1) : handled[m].jobId # handled[i].jobId

C9_EventsGoToOwnerChannel ==
  \A i \in DOMAIN delivered : delivered[i].channel = delivered[i].submittedBy

\* The attempt budget of the queue's resolution
Budget(q) == RES_JOB_OPTS[CHOOSE r \in AllowedRes : RES_TO_QUEUE[r] = q].attempts

\* C10: a job is never executed more often than the attempt budget of its
\* resolution (3 for 360 and 480, 4 for 720); a job that has failed has been
\* executed exactly that often and stays failed; and when the relay has
\* handled its failed event and resolved the owner, a job:failed event with a
\* non-empty reason has been emitted to the channel of the user who
\* submitted the job.
C10_BudgetThenFailedToOwner ==
  [][/\ \A q \in QueueNames : \A j \in DOMAIN broker'[q] :
          /\ Budget(q) = (IF q = queue720 THEN 4 ELSE 3)
          /\ broker'[q][j].started <= Budget(q)
          /\ broker'[q][j].state = "failed" => broker'[q][j].started = Budget(q)
          /\ (j \in DOMAIN broker[q] /\ broker[q][j].state = "failed") =>
               broker'[q][j].state = "failed"
     /\ \A n \in DOMAIN pending : LET h == pending[n] IN
          (pending' = Without(pending, n) /\ h.kind = "failed"
             /\ getJobOwner(h.queue, h.jobId) # None) =>
             /\ Len(delivered') = Len(delivered) + 1
             /\ delivered'[Len(delivered')].event = "job:failed"
             /\ delivered'[Len(delivered')].payload.message # ""
             /\ delivered'[Len(delivered')].channel =
                  broker[h.queue][h.jobId].submittedBy]_vars

(***************************************************************************)
(* Claims about removal                                                    *)
(***************************************************************************)
\* The step is a call of remove, or of getByResolution, that answered
RemoveStep == reply' # reply /\ reply'.op = "remove"

ByResStep == reply' # reply /\ reply'.op = "getByRes"

\* Job id j was given out by queue q and the queue no longer holds the job.
Removed(q, j) == j < nextId[q] /\ j \notin DOMAIN broker[q]

\* C11: remove(r, jobId) on a job that waits in r's queue returns true and
\* takes the job out of the queue; a job that was removed never returns, and
\* every later getByResolution(r, jobId) answers NotFound; remove on an id that
\* no job of r's queue has returns false and changes nothing.
C11_RemoveWaiting ==
  [][/\ \A r \in AllowedRes : \A j \in JobIds :
          Removed(RES_TO_QUEUE[r], j) => j \notin DOMAIN broker'[RES_TO_QUEUE[r]]
     /\ (RemoveStep /\ IsAllowed(reply'.resolution)) =>
          LET q == RES_TO_QUEUE[reply'.resolution]
              j == reply'.jobId
          IN /\ (j \in DOMAIN broker[q] /\ broker[q][j].state = "waiting") =>
                  /\ reply'.result = Bool(TRUE)
                  /\ j \notin DOMAIN broker'[q]
             /\ j \notin DOMAIN broker[q] =>
                  /\ reply'.result = Bool(FALSE)
                  /\ broker' = broker /\ nextId' = nextId
     /\ (ByResStep /\ IsAllowed(reply'.resolution)
           /\ Removed(RES_TO_QUEUE[reply'.resolution], reply'.jobId)) =>
          reply'.result = Null]_vars

\* C20: remove(r, jobId) called on a job of r's queue that is active or
\* completed returns false, raises no error, and leaves the job in its queue
\* unchanged.
C20_RemoveLeasedIsNoOp ==
  [][(RemoveStep /\ IsAllowed(reply'.resolution)) =>
       LET q == RES_TO_QUEUE[reply'.resolution]
           j == reply'.jobId
       IN (j \in DOMAIN broker[q]
             /\ broker[q][j].state \in {"active", "completed"}) =>
            /\ reply'.result = Bool(FALSE)
            /\ broker' = broker]_vars

\* C11 witness: a status lookup has answered NotFound for a job that was
\* removed while it waited (no job of the queue has been leased).
C11_Witness ==
  /\ reply.op = "getByRes"
  /\ IsAllowed(reply.resolution)
  /\ Removed(RES_TO_QUEUE[reply.resolution], reply.jobId)
  /\ reply.result = Null
  /\ \A j \in DOMAIN broker[RES_TO_QUEUE[reply.resolution]] :
       broker[RES_TO_QUEUE[reply.resolution]][j].started = 0

(***************************************************************************)
(* Claims about the relay's lookups and its throttle map                   *)
(***************************************************************************)
\* The i-th and the k-th progress event the relay received are of one job.
SameJob(i, k) ==
  handled[i].queue = handled[k].queue /\ handled[i].jobId = handled[k].jobId

\* C17: the job:progress deliveries of one job are sent in the order in which
\* the relay received the progress events: when the update of an event is
\* sent, no update of an event of that job that was received later has been
\* sent already.
C17_ProgressInReceiveOrder ==
  [][\A i \in DOMAIN handled :
       (~handled[i].delivered /\ handled'[i].delivered) =>
          \A k \in DOMAIN handled :
            (k > i /\ SameJob(i, k)) => ~handled[k].delivered]_vars

\* C17 witness: two progress events of one job have passed the throttle and
\* the updates of both have been sent, the earlier event's first.
C17_Witness ==
  \E i, k \in DOMAIN handled :
    /\ i < k /\ SameJob(i, k)
    /\ handled[i].delivered /\ handled[k].delivered
    /\ \E a, b \in DOMAIN delivered :
         /\ a < b
         /\ delivered[a].answers = i /\ delivered[b].answers = k
         /\ delivered[a].event = "job:progress"
         /\ delivered[b].event = "job:progress"

\* The relay has delivered the completed or the failed event of job jobId of
\* queue q.
EndHandled(q, jobId) ==
  \E i \in DOMAIN delivered :
    /\ delivered[i].event \in {"job:completed", "job:failed"}
    /\ delivered[i].queueName = q
    /\ delivered[i].jobId = jobId

\* C18: after the relay has handled (and delivered) the completed or the
\* failed event of a job, the throttle map holds no entry for that job: the
\* key of its id is absent, unless another queue holds a job of the same id
\* whose completed or failed event the relay has not yet handled.
C18_NoThrottleEntryAfterEnd ==
  \A i \in DOMAIN delivered :
    delivered[i].event \in {"job:completed", "job:failed"} =>
      \/ delivered[i].jobId \notin DOMAIN lastProgressEmit
      \/ \E q \in QueueNames \ {delivered[i].queueName} :
           /\ delivered[i].jobId \in DOMAIN broker[q]
           /\ ~EndHandled(q, delivered[i].jobId)

(***************************************************************************)
(* Claims about the deletion of the original artifact                      *)
(***************************************************************************)
\* C19: a deletion of the original artifact that fails (the original is still
\* there after deleteFile) raises nothing and the attempt goes on to its
\* final progress update, as it does after a deletion that worked; without an
\* original id the upload is followed by the final update at once and the
\* original is not touched; an attempt whose final update is accepted returns
\* {resizedUrl, target}, and the broker records the job as completed with
\* that value.
C19_DeleteFailureNotFatal ==
  [][/\ (pc = "delete" /\ pc' # "delete") =>
          /\ pc' = "final"
          /\ thrown' = None
     /\ (pc = "upload" /\ pc' \notin {"upload", "finally_in"}
           /\ ~HasOriginalId(curJob)) =>
          /\ pc' = "final"
          /\ thrown' = None
          /\ cloud'.original = cloud.original
     /\ (pc = "final" /\ pc' # "final" /\ thrown' = None) =>
          returned' = Some([resizedUrl |-> executions,
                            target |-> curJob.data.target])
     /\ (pc = "settle" /\ pc' = "idle" /\ thrown = None) =>
          /\ broker'[curQueue][curId].state = "completed"
          /\ broker'[curQueue][curId].returnvalue = returned]_vars

\* C19 witness: a job that named its original artifact is completed with the
\* resized artifact published, and the original is still in the cloud: its
\* deletion failed.
C19_Witness ==
  /\ pc = "idle"
  /\ cloud.original = "present"
  /\ \E q \in QueueNames : \E j \in DOMAIN broker[q] :
       /\ HasOriginalId(broker[q][j])
       /\ broker[q][j].state = "completed"
       /\ broker[q][j].returnvalue[1].resizedUrl \in cloud.resized

(***************************************************************************)
(* Claims about leases and the maximum processing duration                 *)
(***************************************************************************)
\* C12: at every moment a job is executed by at most one slot, over all the
\* worker processes of its queue and all their concurrency slots.
C12_OneSlotPerJob ==
  \A j \in DOMAIN broker[QUEUE_NAME] : Cardinality(Executing(j)) <= 1

\* The broker takes job j away from the slot that executes it: the stalled
\* check has moved the job out of the active jobs.
Reclaimed(j) ==
  /\ broker[QUEUE_NAME][j].state = "active"
  /\ broker'[QUEUE_NAME][j].state # "active"
  /\ slots' = slots

\* C23: the lock duration of the queue a worker serves exceeds the timeoutMs
\* of the queue's resolution by a positive margin, and the broker reclaims no
\* job while an attempt on it is still within timeoutMs: when the stalled
\* check takes a job from a slot, the slot's attempt began more than
\* timeoutMs before.
C23_LockOutlastsTimeout ==
  [][/\ lockDuration > timeoutMs
     /\ \A j \in DOMAIN broker[QUEUE_NAME] :
          Reclaimed(j) =>
            \A s \in Executing(j) : now - slots[s][1].since > timeoutMs]_vars

\* C23 witness: an attempt has run for some time within timeoutMs without any
\* renewal of its lock (the lock still ends lockDuration after the lease),
\* and its slot still holds the lock.
C23_Witness ==
  \E s \in Slots :
    /\ slots[s] # None
    /\ now > slots[s][1].since
    /\ now - slots[s][1].since <= timeoutMs
    /\ LockHeld(slots[s][1].job, s)
    /\ locks[slots[s][1].job].until = slots[s][1].since + lockDuration

\* The jobs worker process w executes
Busy(w) == {s \in SlotsOf(w) : slots[s] # None}

\* The N of a worker process, in tenths as concurrency: WORKER_CONCURRENCY
\* when it is a positive number, 2 otherwise
PositiveOrTwo ==
  LET n == Number(WORKER_CONCURRENCY)
  IN IF n # None /\ n[1] > 0 THEN n[1] ELSE 20

\* C24: a worker process executes at most N jobs at the same time, N being
\* WORKER_CONCURRENCY when that is a positive number and 2 otherwise.
C24_AtMostNJobsAtOnce ==
  \A w \in Workers : Cardinality(Busy(w)) * 10 <= PositiveOrTwo

\* C16: an attempt that exceeds the maximum processing duration of its
\* resolution is ended: at no instant does a slot execute an attempt that
\* began more than timeoutMs before.
C16_NoAttemptOutlivesTimeout ==
  \A s \in Slots : slots[s] # None => now - slots[s][1].since <= timeoutMs

(***************************************************************************)
(* Claims about the shutdown of a worker process                           *)
(***************************************************************************)
\* C13: after a termination signal a worker process leases no further job,
\* and the jobs its slots execute at the signal are settled before the
\* process ends: only a slot of a running process takes a job, and when a
\* process ends none of its slots executes a job.
C13_InFlightJobsFinishBeforeExit ==
  [][/\ \A s \in Slots :
          (slots[s] = None /\ slots'[s] # None) => proc[s[1]] = "running"
     /\ \A w \in Workers :
          (proc[w] # proc'[w] /\ proc'[w] \in {"exited", "killed"}) =>
             \A s \in SlotsOf(w) : slots[s] = None]_vars

\* C14: once the shutdown of a worker process has begun the process
\* eventually ends, whether or not the jobs its slots execute ever settle.
C14_ShutdownEndsInExit ==
  \A w \in Workers : (proc[w] = "closing") ~> (proc[w] \in {"exited", "killed"})

(***************************************************************************)
(* Claims about the shutdown of the relay/API process                      *)
(***************************************************************************)
\* C15: when the relay/API process has exited after a shutdown signal (the
\* relay's cleanup has run), every queue lifecycle subscription has been
\* closed and both adapter clients have been disconnected.
C15_BridgeClosedBeforeExit ==
  (exitCode # None /\ \E b \in BridgeParts : bridge[b] # "open") =>
     \A b \in BridgeParts : bridge[b] = "closed"

(***************************************************************************)
(* Claims about the derived status                                         *)
(***************************************************************************)
\* The last call was a status lookup that found the job.
StatusReturned ==
  reply.op \in {"getByRes", "getAny"} /\ reply.result.kind = "status"

\* C21: every JobStatus the status service returns carries a result only if
\* its state is completed and a failure reason only if its state is failed.
C21_ResultAndErrorMatchState ==
  StatusReturned =>
    /\ reply.result.result # None => reply.result.state = "completed"
    /\ reply.result.error # None => reply.result.state = "failed"

\* C21 witness: a status has been returned for a job that failed an earlier
\* attempt and then completed: it carries the result and no failure reason,
\* while the job still holds the reason of the failed attempt.
C21_Witness ==
  /\ StatusReturned
  /\ reply.result.state = "completed"
  /\ reply.result.result # None
  /\ reply.result.error = None
  /\ \E j \in DOMAIN broker[reply.result.queueName] :
       /\ j = reply.result.jobId
       /\ broker[reply.result.queueName][j].state = "completed"
       /\ broker[reply.result.queueName][j].failedReason # None

\* C25: when the handler of a completed event gets the job's owner, it
\* delivers job:completed to the owner's channel, whatever the throttle entry
\* of the job says.
C25_CompletedIsNeverThrottled ==
  [][\A n \in DOMAIN pending :
       LET h == pending[n]
           userId == getJobOwner(h.queue, h.jobId)
       IN (/\ h.kind = "completed"
           /\ pending' = Without(pending, n)
           /\ broker' = broker
           /\ userId # None)
          => delivered' = Append(delivered, Delivery("job:completed", userId[1], h))]_vars

\* C25 witness: job:completed was delivered right after a job:progress of the
\* same job, less than the throttle interval after the job's throttle entry.
C25_Witness ==
  \E i \in 1..(Len(delivered) - 1) :
    /\ delivered[i].event = "job:progress"
    /\ delivered[i + 1].event = "job:completed"
    /\ delivered[i + 1].queueName = delivered[i].queueName
    /\ delivered[i + 1].jobId = delivered[i].jobId
    /\ delivered[i].jobId \in DOMAIN lastProgressEmit
    /\ now - lastEmit(delivered[i].jobId) < PROGRESS_THROTTLE_MS

\* C26: a progress event whose job cannot be read when its owner is looked up
\* has no effect: nothing is delivered for it, and its handler has not written
\* the throttle entry of the job id (it writes the entry exactly when the
\* event passes the throttle check).
C26_UnreadableProgressHasNoEffect ==
  \A i \in DOMAIN handled :
    (Finished(i) /\ ~handled[i].resolvable) =>
      /\ ~handled[i].delivered
      /\ ~handled[i].passed

RelayRuns ==
  /\ relayUp
  /\ exitCode = None
  /\ ~isShuttingDown
  /\ \A q \in QueueNames : bridge[q] = "open"

\* C30: an error of a queue's subscription is logged and nothing else: the
\* step that logs it leaves the process running, every subscription open and
\* the events and lookups of the relay as they were, and from then on the
\* relay still runs with every subscription open.
C30_SubscriptionErrorOnlyLogged ==
  [][/\ qeErrors' # qeErrors =>
          /\ RelayRuns'
          /\ UNCHANGED <<exitVars, relayVars>>
     /\ qeErrors # <<>> => RelayRuns']_vars

\* C30 witness: after an error of a queue's subscription was logged, an event
\* of a job of that queue has been delivered.
C30_Witness ==
  \E n \in DOMAIN qeErrors :
    /\ Len(delivered) > qeErrors[n].seen
    /\ delivered[qeErrors[n].seen + 1].queueName = qeErrors[n].queue
    /\ RelayRuns

\* C36: every job stored in the queue of resolution r has the core fields of
\* its submission: target = r, userId = the submitting user, srcUrl = the
\* source URL that was submitted, whatever the metadata map contains.
C36_StoredCoreFieldsEqualArguments ==
  \A r \in AllowedRes : \A j \in DOMAIN broker[RES_TO_QUEUE[r]] :
    LET job == broker[RES_TO_QUEUE[r]][j] IN
    /\ job.data.target = r
    /\ job.data.userId = job.submittedBy
    /\ job.data.srcUrl \in SrcUrls

\* C38: a status returned by the status service is consistent although the
\* job may change state while the status is computed: when its state is
\* completed its result is the job's return value, and when its state is
\* failed its error is the job's failure reason.
C38_StatusIsConsistentSnapshot ==
  (reply.op = "getByRes" /\ reply.result.kind = "status") =>
    LET job == broker[reply.result.queueName][reply.result.jobId] IN
    /\ reply.result.state = "completed" => reply.result.result = job.returnvalue
    /\ reply.result.state = "failed" => reply.result.error = job.failedReason

NoProgressAfterEndOfOneRelay ==
  \A i, k \in DOMAIN delivered :
    (/\ i < k
     /\ delivered[i].event \in {"job:completed", "job:failed"}
     /\ delivered[k].queueName = delivered[i].queueName
     /\ delivered[k].jobId = delivered[i].jobId)
    => delivered[k].event # "job:progress"

\* The queues enqueueVideoTranscode can add a job to
RouterQueues == {RES_TO_QUEUE[r] : r \in AllowedRes}

\* The queues initQueueEvents opens a subscription for
RelayQueues == {queues[i] : i \in DOMAIN queues}

\* C35: the router's queues, the names a worker accepts and the relay's
\* queues are one set, each with a resolution policy, and a worker process
\* started for an accepted name starts up.
C35_OneSetOfQueues ==
  /\ RouterQueues = DOMAIN QUEUE_NAME_TO_RES
  /\ RelayQueues = DOMAIN QUEUE_NAME_TO_RES
  /\ \A q \in DOMAIN QUEUE_NAME_TO_RES : QUEUE_NAME_TO_RES[q] \in DOMAIN RES_JOB_OPTS
  /\ QUEUE_NAME \in DOMAIN QUEUE_NAME_TO_RES =>
       \A w \in Workers : proc[w] \in {"starting", "running"}

\* A worker started for an accepted queue name starts up (the last part of C35)
AcceptedNameStartsUp ==
  QUEUE_NAME \in DOMAIN QUEUE_NAME_TO_RES =>
    \A w \in Workers : proc[w] \in {"starting", "running"}

\* Job j of queue q has been submitted
InQueue(q, j) == j \in DOMAIN broker[q]

\* Job j of queue q is completed or failed
Terminal(q, j) ==
  j \in DOMAIN broker[q] /\ broker[q][j].state \in {"completed", "failed"}

\* C34: with a running worker and calls that return or fail, every submitted
\* job eventually is completed or failed.
C34_SubmittedJobsTerminate ==
  \A q \in RouterQueues : InQueue(q, 1) ~> Terminal(q, 1)

\* C34: a job whose first attempt failed has been retried and is completed.
C34_Witness ==
  \E q \in QueueNames : \E j \in DOMAIN broker[q] :
    broker[q][j].state = "completed" /\ broker[q][j].started >= 2

\* The hook waits for the events of job j of queue q
HookWaitsFor(q, j) ==
  /\ hook.status = "processing"
  /\ hook.jobDetails = Some([jobId |-> j, queueName |-> q])

\* C40: when the job the hook has submitted is completed or failed, the hook
\* leaves 'processing' for 'completed' or 'failed', also when the relay's
\* emit came before the hook registered its listeners.
C40_HookLeavesProcessing ==
  \A q \in RouterQueues : \A j \in 1..MaxJobs :
    (HookWaitsFor(q, j) /\ Terminal(q, j)) ~> (hook.status \in {"completed", "failed"})

\* The emit of the end of the hook's job has reached the socket while the
\* hook had no listeners, and the hook is in 'processing'.
HookMissedTheEnd ==
  \E q \in RouterQueues : \E j \in 1..MaxJobs :
    /\ HookWaitsFor(q, j)
    /\ \E i \in 1..hook.seen :
         /\ delivered[i].jobId = j
         /\ delivered[i].queueName = q
         /\ delivered[i].event \in {"job:completed", "job:failed"}
====
